---------------------------- MODULE Spec2Model ----------------------------
(***************************************************************************)
(* A model of the frame-sampling and aggregation pipeline of the urban     *)
(* warfare analyst: FrameExtractor.extract_key_frames                      *)
(* (src/frame_extractor.py) and PerformanceSummarizer.aggregate_analysis   *)
(* with its helpers (src/performance_summarizer.py).                       *)
(*                                                                         *)
(* Conventions.                                                            *)
(*  - A Python dict is a function whose DOMAIN is the set of keys that are *)
(*    present; d.get(k, default) is get(d, k, default).                    *)
(*  - A Python str that the code inspects (error and strength texts) is a  *)
(*    sequence of one-character strings, so that lower() and the `in`      *)
(*    substring test are computed, not assumed.                            *)
(*  - A float that is a quotient of integers is the record                 *)
(*    [num |-> n, den |-> d] with d > 0; comparisons cross-multiply.       *)
(*  - A float rounded to one decimal is an integer number of tenths.       *)
(***************************************************************************)
EXTENDS Integers, Sequences, FiniteSets, TLC

(***************************************************************************)
(* Bounds of the model.                                                    *)
(***************************************************************************)
\* the largest number of frame analyses handed to aggregate_analysis
MaxFrames == 3
\* the largest count stored in a category map handed to _generate_recommendations
MaxCount == 3
\* the number of calls of _get_performance_rating that are followed
MaxCalls == 2
\* the longest list of positions passed to extract_key_frames
MaxPositions == 2
\* the largest num_frames passed to extract_key_frames
MaxNumFrames == 2
\* the largest frame count a video reports
MaxTotalFrames == 4
\* the largest width, height and max_dimension handed to _resize_image alone
MaxDim == 6
\* how often aggregate_analysis is called on one list of frame results
MaxAggCalls == 2
\* the longest list of frame results whose average is banded
MaxBandFrames == 21

VARIABLES
    \* ---- stage 1: FrameExtractor.extract_key_frames (frame_extractor.py)
    ex_args,            \* the arguments of the call: num_frames, positions, resize_max
    video,              \* the file: exists, opens, fps, total_frames, size
    ex_pc,              \* "call" | "loop" | "returned" | "raised"
    ex_locals,          \* num_frames, positions, resize_max after the defaults
    ex_next,            \* 1-based index of the next retained position
    cap,                \* the video handle: "none" | "unopened" | "open" | "released"
    releases,           \* how often cap.release() ran
    seeks,              \* the frame numbers passed to cap.set, in order
    reads,              \* what cap.read() gave for each seek, in order
    frames,             \* the list of (image, timestamp) built so far
    ex_result,          \* what the call gave back: a list, or the exception
    warnings,           \* the warning lines printed
    \* ---- stage 3: aggregation (run_stage3_infographic.py, performance_summarizer.py)
    analysis_results,   \* the list of frame results collected so far
    video_metadata,     \* the metadata dict handed to aggregate_analysis
    agg_pc,             \* "collect" | "done" | "ValueError"
    summary,            \* the dict aggregate_analysis returned (NoSummary before)
    agg_calls,          \* how often aggregate_analysis has been called
    \* ---- _generate_recommendations applied on its own
    rec_avg, rec_errors, rec_strengths, rec_pc, rec_out,
    \* ---- _get_performance_rating applied on its own
    rate_calls,         \* the calls made so far: [score, rating] records
    \* ---- aggregate_analysis applied to a list and to a reordering of it
    perm_results,       \* the list of frame results
    perm_order,         \* the reordering: position i holds perm_results[perm_order[i]]
    perm_pc,            \* "call" | "done"
    perm_out,           \* the two summaries: of the list, of the reordered list
    \* ---- _resize_image applied on its own
    rz_size,            \* (width, height) of the image
    rz_max,             \* max_dimension
    rz_pc,              \* "call" | "once" | "twice"
    rz_once,            \* size after one call
    rz_twice,           \* size after resizing the result again
    \* ---- FrameExtractor.validate_video on the video
    val_pc,             \* "call" | "done"
    val_result,         \* the dict validate_video returned
    val_cap,            \* its video handle: "none" | "unopened" | "released"
    val_releases,       \* how often its cap.release() ran
    \* ---- FrameExtractor.extract_and_save_frames, after extract_key_frames
    esf_pc,             \* "call" | "returned"
    esf_out,            \* the list of frame records it returned
    \* ---- stage 3 after the aggregation: infographic and text report
    info_pc,            \* "call" | "returned"
    response,           \* what the image model answered to generate_content
    infographic,        \* what generate_infographic returned: "image" | "None"
    caught,             \* the failures caught and not raised again, in order
    logs,               \* the lines printed about failures, in order
    report_pc,          \* "call" | "saved"
    report              \* the lines of the text report

ex_vars == <<ex_args, video, ex_pc, ex_locals, ex_next, cap, releases, seeks,
             reads, frames, ex_result, warnings>>

vars == <<ex_args, video, ex_pc, ex_locals, ex_next, cap, releases, seeks,
          reads, frames, ex_result, warnings,
          analysis_results, video_metadata, agg_pc, summary, agg_calls,
          rec_avg, rec_errors, rec_strengths, rec_pc, rec_out,
          rate_calls,
          perm_results, perm_order, perm_pc, perm_out,
          rz_size, rz_max, rz_pc, rz_once, rz_twice,
          val_pc, val_result, val_cap, val_releases,
          esf_pc, esf_out,
          info_pc, response, infographic, caught, logs, report_pc, report>>

agg_vars == <<analysis_results, video_metadata, agg_pc, summary, agg_calls>>
rec_vars == <<rec_avg, rec_errors, rec_strengths, rec_pc, rec_out>>
rate_vars == <<rate_calls>>
perm_vars == <<perm_results, perm_order, perm_pc, perm_out>>
rz_vars == <<rz_size, rz_max, rz_pc, rz_once, rz_twice>>
val_vars == <<val_pc, val_result, val_cap, val_releases>>
esf_vars == <<esf_pc, esf_out>>
rep_vars == <<info_pc, response, infographic, caught, logs, report_pc, report>>

(***************************************************************************)
(* Python built-ins used by the code.                                      *)
(***************************************************************************)
\* dict.get(k, default)
get(d, k, default) == IF k \in DOMAIN d THEN d[k] ELSE default

\* the empty dict {}
EmptyDict == [k \in {} |-> 0]

\* d[k] = v on a dict
put(d, k, v) == [x \in (DOMAIN d) \cup {k} |-> IF x = k THEN v ELSE d[x]]

\* seq[:n]
Prefix(seq, n) == SubSeq(seq, 1, IF Len(seq) < n THEN Len(seq) ELSE n)

RECURSIVE sum(_)
sum(seq) == IF seq = <<>> THEN 0 ELSE Head(seq) + sum(Tail(seq))

RECURSIVE min(_)
min(seq) ==
    IF Len(seq) = 1 THEN seq[1]
    ELSE LET m == min(Tail(seq)) IN IF Head(seq) <= m THEN Head(seq) ELSE m

RECURSIVE max(_)
max(seq) ==
    IF Len(seq) = 1 THEN seq[1]
    ELSE LET m == max(Tail(seq)) IN IF Head(seq) >= m THEN Head(seq) ELSE m

\* the average cut, not rounded, to one decimal
round1_truncate(n, d) == (10 * n) \div d

\* round(n/d, 1) for n >= 0, d > 0, as a number of tenths.  Python rounds the
\* float to the nearest tenth; the only quotients that lie exactly half way
\* between two tenths and are exact as floats end in .25 or .75, and for
\* those the result is the even tenth (61.25 -> 61.2, 61.75 -> 61.8).  A
\* quotient x.x5 with another last digit needs d to be a multiple of 20.
round1(n, d) ==
    LET q == (10 * n) \div d
        r == (10 * n) % d
    IN  IF 2 * r < d THEN q
        ELSE IF 2 * r > d THEN q + 1
        ELSE IF q % 2 = 0 THEN q ELSE q + 1

\* str.lower(), character by character
UpperCase == <<"A","B","C","D","E","F","G","H","I","J","K","L","M",
               "N","O","P","Q","R","S","T","U","V","W","X","Y","Z">>
LowerCase == <<"a","b","c","d","e","f","g","h","i","j","k","l","m",
               "n","o","p","q","r","s","t","u","v","w","x","y","z">>

UpperSet == {UpperCase[i] : i \in 1..Len(UpperCase)}

LowerChar(c) ==
    IF c \in UpperSet
    THEN LowerCase[CHOOSE i \in 1..Len(UpperCase) : UpperCase[i] = c]
    ELSE c

lower(text) == [i \in 1..Len(text) |-> LowerChar(text[i])]

\* `kw in text` on strings
In(kw, text) ==
    \E i \in 1..(Len(text) - Len(kw) + 1) : SubSeq(text, i, i + Len(kw) - 1) = kw

(***************************************************************************)
(* The trigger words of the categorisation (performance_summarizer.py      *)
(* lines 112-127).                                                         *)
(***************************************************************************)
KW_spacing == <<"s","p","a","c","i","n","g">>
KW_tight == <<"t","i","g","h","t">>
KW_cover == <<"c","o","v","e","r">>
KW_exposed == <<"e","x","p","o","s","e","d">>
KW_formation == <<"f","o","r","m","a","t","i","o","n">>
KW_stack == <<"s","t","a","c","k">>
KW_weapon == <<"w","e","a","p","o","n">>
KW_muzzle == <<"m","u","z","z","l","e">>


(***************************************************************************)
(* Config (src/config.py).  A position is kept as a number of quarters:    *)
(* 0, 1, 2, 3, 4 stand for 0.0, 0.25, 0.5, 0.75, 1.0, all exact as floats, *)
(* so that total_frames * position is computed without rounding.           *)
(***************************************************************************)
NUM_FRAMES == 3
FRAME_RESIZE_MAX == 720
FRAME_EXTRACTION_POSITIONS == <<1, 2, 3>>
\* seconds
MAX_VIDEO_DURATION == 120
\* megabytes
MAX_FILE_SIZE_MB == 100
SUPPORTED_FORMATS ==
    { <<".","m","p","4">>, <<".","m","o","v">>, <<".","a","v","i">>,
      <<".","m","k","v">>, <<".","w","m","v">> }

(***************************************************************************)
(* FrameExtractor._resize_image, on the size of the image.  The code       *)
(* computes int(height * (max_dimension / width)) in floats; for the sizes *)
(* of VideoSizes with the values of ResizeArgs, and for all sizes and       *)
(* max_dimension up to 12, this is the exact floor.                        *)
(***************************************************************************)
\* the scaling applied to every image, also to one within max_dimension
resize_image_always_scales(size, max_dimension) ==
    LET width == size[1]
        height == size[2]
    IN  IF width > height
        THEN <<max_dimension, (height * max_dimension) \div width>>
        ELSE <<(width * max_dimension) \div height, max_dimension>>

_resize_image(size, max_dimension) ==
    LET width == size[1]
        height == size[2]
    IN  IF width <= max_dimension /\ height <= max_dimension
        THEN size
        ELSE IF width > height
        THEN <<max_dimension, (height * max_dimension) \div width>>
        ELSE <<(width * max_dimension) \div height, max_dimension>>

(***************************************************************************)
(* FrameExtractor.extract_key_frames                                       *)
(***************************************************************************)
\* the argument used as it was passed
int_or_default_keeps_zero(x, default) == x

\* `x or default` on an optional int: None and 0 are falsy (both kept as 0)
int_or_default(x, default) == IF x = 0 THEN default ELSE x

\* `x or default` on an optional list: None and [] are falsy (both kept as <<>>)
list_or_default(x, default) == IF Len(x) = 0 THEN default ELSE x

\* total_frames * int(position)
frame_number_int_first(total_frames, position) == total_frames * (position \div 4)

\* line 82: int(total_frames * position)
frame_number_of(total_frames, position) == (total_frames * position) \div 4

\* sorted(positions)[:num_frames]
retained_sorted(locals) ==
    Prefix(SortSeq(locals.positions, LAMBDA a, b : a < b), locals.num_frames)

\* line 80: positions[:num_frames]
retained(locals) == Prefix(locals.positions, locals.num_frames)

\* lines 53-77: the defaults, the path check, the open, the metadata
ExtractStart ==
    /\ ex_pc = "call"
    /\ ex_locals' =
          [num_frames |-> int_or_default(ex_args.num_frames, NUM_FRAMES),
           positions |-> list_or_default(ex_args.positions, FRAME_EXTRACTION_POSITIONS),
           resize_max |-> int_or_default(ex_args.resize_max, FRAME_RESIZE_MAX)]
    /\ IF ~video.exists
       THEN /\ ex_pc' = "raised"
            /\ ex_result' = [kind |-> "FileNotFoundError"]
            /\ UNCHANGED <<cap, releases, warnings>>
       ELSE IF ~video.opens
       THEN \* lines 64-66: the VideoCapture object exists, isOpened() is
            \* false, the raise is outside the try and skips the finally
            /\ ex_pc' = "raised"
            /\ ex_result' = [kind |-> "ValueError"]
            /\ cap' = "unopened"
            /\ UNCHANGED <<releases, warnings>>
       ELSE IF video.fps = 0
       THEN \* line 72 divides by fps; the finally clause releases the handle
            /\ ex_pc' = "raised"
            /\ ex_result' = [kind |-> "ZeroDivisionError"]
            /\ cap' = "released"
            /\ releases' = releases + 1
            /\ UNCHANGED warnings
       ELSE /\ ex_pc' = "loop"
            /\ cap' = "open"
            /\ warnings' =
                  IF video.total_frames < ex_locals'.num_frames
                  THEN Append(warnings, "fewer frames than requested")
                  ELSE warnings
            /\ UNCHANGED <<releases, ex_result>>
    /\ UNCHANGED <<ex_args, video, ex_next, seeks, reads, frames>>
    /\ UNCHANGED <<agg_vars, rec_vars, rate_vars, perm_vars, rz_vars,
                   val_vars, esf_vars, rep_vars>>

\* one pass of the loop with `break` in place of `continue` after a failed read
ExtractPosition_break ==
    /\ ex_pc = "loop"
    /\ ex_next <= Len(retained(ex_locals))
    /\ LET position == retained(ex_locals)[ex_next]
           frame_number == frame_number_of(video.total_frames, position)
           timestamp == [num |-> frame_number, den |-> video.fps]
       IN  /\ seeks' = Append(seeks, frame_number)
           /\ \E ret \in IF frame_number \in 0..(video.total_frames - 1)
                         THEN {TRUE, FALSE} ELSE {FALSE} :
              /\ reads' = Append(reads, ret)
              /\ IF ~ret
                 THEN /\ warnings' = Append(warnings, "could not read frame")
                      /\ ex_next' = Len(retained(ex_locals)) + 1
                      /\ UNCHANGED frames
                 ELSE /\ frames' =
                            Append(frames,
                                   [image |-> [frame |-> frame_number,
                                               size |-> IF ex_locals.resize_max # 0
                                                        THEN _resize_image(video.size,
                                                                 ex_locals.resize_max)
                                                        ELSE video.size],
                                    timestamp |-> timestamp])
                      /\ ex_next' = ex_next + 1
                      /\ UNCHANGED warnings
    /\ UNCHANGED <<ex_args, video, ex_pc, ex_locals, cap, releases, ex_result>>
    /\ UNCHANGED <<agg_vars, rec_vars, rate_vars, perm_vars, rz_vars,
                   val_vars, esf_vars, rep_vars>>

\* lines 80-105: one pass of the loop.  The read of a frame number outside
\* 0..total_frames-1 fails; inside that range the decoder may fail too.
ExtractPosition ==
    /\ ex_pc = "loop"
    /\ ex_next <= Len(retained(ex_locals))
    /\ LET position == retained(ex_locals)[ex_next]
           frame_number == frame_number_of(video.total_frames, position)
           timestamp == [num |-> frame_number, den |-> video.fps]
       IN  /\ seeks' = Append(seeks, frame_number)
           /\ \E ret \in IF frame_number \in 0..(video.total_frames - 1)
                         THEN {TRUE, FALSE} ELSE {FALSE} :
              /\ reads' = Append(reads, ret)
              /\ IF ~ret
                 THEN /\ warnings' = Append(warnings, "could not read frame")
                      /\ UNCHANGED frames
                 ELSE /\ frames' =
                            Append(frames,
                                   [image |-> [frame |-> frame_number,
                                               size |-> IF ex_locals.resize_max # 0
                                                        THEN _resize_image(video.size,
                                                                 ex_locals.resize_max)
                                                        ELSE video.size],
                                    timestamp |-> timestamp])
                      /\ UNCHANGED warnings
    /\ ex_next' = ex_next + 1
    /\ UNCHANGED <<ex_args, video, ex_pc, ex_locals, cap, releases, ex_result>>
    /\ UNCHANGED <<agg_vars, rec_vars, rate_vars, perm_vars, rz_vars,
                   val_vars, esf_vars, rep_vars>>

\* lines 107-110: the loop is over; return frames, the finally clause releases
ExtractReturn ==
    /\ ex_pc = "loop"
    /\ ex_next > Len(retained(ex_locals))
    /\ ex_pc' = "returned"
    /\ ex_result' = [kind |-> "frames", frames |-> frames]
    /\ cap' = "released"
    /\ releases' = releases + 1
    /\ UNCHANGED <<ex_args, video, ex_locals, ex_next, seeks, reads, frames,
                   warnings>>
    /\ UNCHANGED <<agg_vars, rec_vars, rate_vars, perm_vars, rz_vars,
                   val_vars, esf_vars, rep_vars>>

(***************************************************************************)
(* FrameExtractor.validate_video.  The file size in megabytes and the      *)
(* duration in seconds are quotients [num, den]; filename (the last part   *)
(* of the path) is left out of the metadata.                               *)
(***************************************************************************)
\* line 166: the divisor 1024 * 1024
BYTES_PER_MB == 1048576

\* q > t for the quotient q and the integer t
GT(q, t) == q.num > t * q.den

\* line 166
file_size_mb_of(st_size) == [num |-> st_size, den |-> BYTES_PER_MB]

\* line 189: total_frames / fps if fps > 0 else 0
duration_of(total_frames, fps) ==
    IF fps > 0 THEN [num |-> total_frames, den |-> fps] ELSE [num |-> 0, den |-> 1]

\* lines 152-209: the dict returned for the file v
\* the size compared before the extension is looked at
validate_video_size_first(v) ==
    IF ~v.exists
    THEN [valid |-> FALSE, error |-> "File not found"]
    ELSE IF GT(file_size_mb_of(v.st_size), MAX_FILE_SIZE_MB)
    THEN [valid |-> FALSE, error |-> "File too large"]
    ELSE IF lower(v.suffix) \notin SUPPORTED_FORMATS
    THEN [valid |-> FALSE, error |-> "Unsupported format"]
    ELSE IF ~v.opens
    THEN [valid |-> FALSE, error |-> "Cannot open video file"]
    ELSE IF GT(duration_of(v.total_frames, v.fps), MAX_VIDEO_DURATION)
    THEN [valid |-> FALSE, error |-> "Video too long"]
    ELSE [valid |-> TRUE,
          metadata |-> [size_mb |-> file_size_mb_of(v.st_size),
                        duration |-> duration_of(v.total_frames, v.fps),
                        fps |-> v.fps,
                        resolution |-> v.size,
                        frame_count |-> v.total_frames]]

validate_video(v) ==
    IF ~v.exists
    THEN [valid |-> FALSE, error |-> "File not found"]
    ELSE IF lower(v.suffix) \notin SUPPORTED_FORMATS
    THEN [valid |-> FALSE, error |-> "Unsupported format"]
    ELSE IF GT(file_size_mb_of(v.st_size), MAX_FILE_SIZE_MB)
    THEN [valid |-> FALSE, error |-> "File too large"]
    ELSE IF ~v.opens
    THEN [valid |-> FALSE, error |-> "Cannot open video file"]
    ELSE IF GT(duration_of(v.total_frames, v.fps), MAX_VIDEO_DURATION)
    THEN [valid |-> FALSE, error |-> "Video too long"]
    ELSE [valid |-> TRUE,
          metadata |-> [size_mb |-> file_size_mb_of(v.st_size),
                        duration |-> duration_of(v.total_frames, v.fps),
                        fps |-> v.fps,
                        resolution |-> v.size,
                        frame_count |-> v.total_frames]]

\* line 176 is reached: the three checks on the file have passed
reaches_open(v) ==
    /\ v.exists
    /\ lower(v.suffix) \in SUPPORTED_FORMATS
    /\ ~GT(file_size_mb_of(v.st_size), MAX_FILE_SIZE_MB)

\* one call of validate_video, between calls of extract_key_frames.  The
\* handle of line 176 is released by the finally clause of lines 211-212 when
\* the video opened, and is left as it is by the return of lines 177-181.
ValidateVideo ==
    /\ val_pc = "call"
    /\ ex_pc \in {"call", "returned", "raised"}
    /\ val_pc' = "done"
    /\ val_result' = validate_video(video)
    /\ val_cap' = IF ~reaches_open(video) THEN "none"
                  ELSE IF video.opens THEN "released" ELSE "unopened"
    /\ val_releases' = IF reaches_open(video) /\ video.opens
                       THEN val_releases + 1 ELSE val_releases
    /\ UNCHANGED <<ex_vars, agg_vars, rec_vars, rate_vars, perm_vars, rz_vars,
                   esf_vars, rep_vars>>

(***************************************************************************)
(* FrameExtractor.extract_and_save_frames: extract_key_frames (the actions *)
(* above), then lines 277-311.  A filename f"{prefix}_{idx:03d}_{t:.1f}s"  *)
(* is the triple of its prefix, the digits of idx and the tenths of t;     *)
(* path, size and base64 of a record are left out.                         *)
(***************************************************************************)
DigitChar == <<"0","1","2","3","4","5","6","7","8","9">>

\* f"{idx:03d}" for 0 <= idx < 1000
format_03d(idx) ==
    <<DigitChar[((idx \div 100) % 10) + 1], DigitChar[((idx \div 10) % 10) + 1],
      DigitChar[(idx % 10) + 1]>>

\* f"{timestamp:.1f}": the tenths of the quotient
format_1f(timestamp) == round1(timestamp.num, timestamp.den)

\* the name built from the prefix and the timestamp alone
filename_of_timestamp_only(prefix, idx, timestamp) ==
    [prefix |-> prefix, idx |-> format_03d(0), timestamp |-> format_1f(timestamp),
     suffix |-> "s.jpg"]

\* line 285
filename_of(prefix, idx, timestamp) ==
    [prefix |-> prefix, idx |-> format_03d(idx), timestamp |-> format_1f(timestamp),
     suffix |-> "s.jpg"]

\* lines 282-309: enumerate(frames)
frame_data_of(extracted) ==
    [i \in 1..Len(extracted) |->
        [index |-> i - 1,
         timestamp |-> extracted[i].timestamp,
         filename |-> filename_of("frame", i - 1, extracted[i].timestamp),
         image |-> extracted[i].image]]

\* lines 277-311, after extract_key_frames has returned to line 275
SaveFrames ==
    /\ esf_pc = "call"
    /\ ex_pc = "returned"
    /\ esf_pc' = "returned"
    /\ esf_out' = frame_data_of(ex_result.frames)
    /\ UNCHANGED <<ex_vars, agg_vars, rec_vars, rate_vars, perm_vars, rz_vars,
                   val_vars, rep_vars>>

(***************************************************************************)
(* PerformanceSummarizer._get_performance_rating                           *)
(***************************************************************************)
\* score >= t for the quotient score and the integer t
GE(score, t) == score.num >= t * score.den
\* score < t
LT(score, t) == score.num < t * score.den

get_performance_rating_strict(score) ==
    IF score.num > 90 * score.den THEN "Excellent"
    ELSE IF score.num > 75 * score.den THEN "Good"
    ELSE IF score.num > 60 * score.den THEN "Satisfactory"
    ELSE IF score.num > 50 * score.den THEN "Needs Improvement"
    ELSE "Requires Remedial Training"

_get_performance_rating(score) ==
    IF GE(score, 90) THEN "Excellent"
    ELSE IF GE(score, 75) THEN "Good"
    ELSE IF GE(score, 60) THEN "Satisfactory"
    ELSE IF GE(score, 50) THEN "Needs Improvement"
    ELSE "Requires Remedial Training"

(***************************************************************************)
(* PerformanceSummarizer._generate_recommendations                         *)
(***************************************************************************)
REC_FUNDAMENTALS == "Schedule additional training sessions focusing on fundamentals"
REC_SPACING == "Practice spacing drills - maintain 3-5 meter intervals during movement"
REC_COVER == "Emphasize cover utilization - always move from cover to cover"
REC_FORMATION == "Review and practice standard formations (wedge, line, column)"
REC_WEAPON == "Continue excellent weapon handling - maintain this standard"
REC_ENTRY == "Formation discipline is strong - focus on refining entry techniques"
REC_DEFAULT_1 == "Continue current training regimen"
REC_DEFAULT_2 == "Focus on maintaining consistent performance across all scenarios"

\* `if cond: recommendations.append(text)`
append_if(recommendations, cond, text) ==
    IF cond THEN Append(recommendations, text) ELSE recommendations

\* the category thresholds read as `> 2`
conditional_recommendations_strict(avg_score, errors, strengths) ==
    LET r1 == append_if(<<>>, LT(avg_score, 70), REC_FUNDAMENTALS)
        r2 == append_if(r1, get(errors, "spacing_issues", 0) > 2, REC_SPACING)
        r3 == append_if(r2, get(errors, "cover_issues", 0) > 2, REC_COVER)
        r4 == append_if(r3, get(errors, "formation_issues", 0) > 2, REC_FORMATION)
        r5 == append_if(r4, get(strengths, "weapon_discipline", 0) > 2, REC_WEAPON)
        r6 == append_if(r5, get(strengths, "formation_discipline", 0) > 2, REC_ENTRY)
    IN  r6

\* the six conditional rules, lines 204-222
conditional_recommendations(avg_score, errors, strengths) ==
    LET r1 == append_if(<<>>, LT(avg_score, 70), REC_FUNDAMENTALS)
        r2 == append_if(r1, get(errors, "spacing_issues", 0) >= 2, REC_SPACING)
        r3 == append_if(r2, get(errors, "cover_issues", 0) >= 2, REC_COVER)
        r4 == append_if(r3, get(errors, "formation_issues", 0) >= 2, REC_FORMATION)
        r5 == append_if(r4, get(strengths, "weapon_discipline", 0) >= 2, REC_WEAPON)
        r6 == append_if(r5, get(strengths, "formation_discipline", 0) >= 2, REC_ENTRY)
    IN  r6

\* the default recommendations appended whatever was collected before
generate_recommendations_defaults_always(avg_score, errors, strengths) ==
    Prefix(conditional_recommendations(avg_score, errors, strengths)
             \o <<REC_DEFAULT_1, REC_DEFAULT_2>>, 5)

\* the default recommendations appended while fewer than two were collected
generate_recommendations_defaults_if_short(avg_score, errors, strengths) ==
    LET recommendations == conditional_recommendations(avg_score, errors, strengths)
    IN  Prefix(IF Len(recommendations) < 2
               THEN recommendations \o <<REC_DEFAULT_1, REC_DEFAULT_2>>
               ELSE recommendations, 5)

\* the result returned without the [:5]
generate_recommendations_uncapped(avg_score, errors, strengths) ==
    LET recommendations == conditional_recommendations(avg_score, errors, strengths)
    IN  IF recommendations = <<>>
        THEN <<REC_DEFAULT_1, REC_DEFAULT_2>>
        ELSE recommendations

_generate_recommendations(avg_score, errors, strengths) ==
    LET recommendations == conditional_recommendations(avg_score, errors, strengths)
        with_defaults ==
            IF recommendations = <<>>
            THEN <<REC_DEFAULT_1, REC_DEFAULT_2>>
            ELSE recommendations
    IN  Prefix(with_defaults, 5)

(***************************************************************************)
(* PerformanceSummarizer.aggregate_analysis                                *)
(***************************************************************************)
\* line 72
scores(results) ==
    [i \in 1..Len(results) |-> get(results[i].analysis, "score", 0)]

\* line 73
avg_score(results) ==
    IF Len(results) > 0
    THEN [num |-> sum(scores(results)), den |-> Len(results)]
    ELSE [num |-> 0, den |-> 1]

\* lines 76-81: the per-frame lists under `key`, extended in frame order
RECURSIVE extend_all(_, _)
extend_all(results, key) ==
    IF results = <<>> THEN <<>>
    ELSE get(Head(results).analysis, key, <<>>) \o extend_all(Tail(results), key)

all_errors(results) == extend_all(results, "tactical_errors")
all_strengths(results) == extend_all(results, "tactical_strengths")

\* lines 84-87
total_soldier_count(results) ==
    sum([i \in 1..Len(results) |-> get(results[i].analysis, "soldier_count", 0)])

\* lines 90-100
CoverKeys == {"full_cover", "partial_cover", "no_cover", "exposed"}

\* `=` in place of `+=`: each counter holds the last frame's value
cover_stats_overwrite(results) ==
    [key \in CoverKeys |->
        get(get(results[Len(results)].analysis, "cover_summary", EmptyDict), key, 0)]

cover_stats(results) ==
    [key \in CoverKeys |->
        sum([i \in 1..Len(results) |->
                get(get(results[i].analysis, "cover_summary", EmptyDict), key, 0)])]

\* lines 103-106 and 140
formation_of(r) ==
    get(get(r.analysis, "movement_analysis", EmptyDict), "formation", "unknown")

formations(results) == [i \in 1..Len(results) |-> formation_of(results[i])]

\* `freq[k] = freq.get(k, 0) + 1`
incr(freq, k) == put(freq, k, get(freq, k, 0) + 1)

\* the three tests chained with elif: only the first matching category counts
count_error_first_match(freq, error) ==
    LET text == lower(error)
    IN  IF In(KW_spacing, text) \/ In(KW_tight, text)
        THEN incr(freq, "spacing_issues")
        ELSE IF In(KW_cover, text) \/ In(KW_exposed, text)
        THEN incr(freq, "cover_issues")
        ELSE IF In(KW_formation, text)
        THEN incr(freq, "formation_issues")
        ELSE freq

\* lines 112-117: one pass of the loop body over `error`
count_error(freq, error) ==
    LET text == lower(error)
        f1 == IF In(KW_spacing, text) \/ In(KW_tight, text)
              THEN incr(freq, "spacing_issues") ELSE freq
        f2 == IF In(KW_cover, text) \/ In(KW_exposed, text)
              THEN incr(f1, "cover_issues") ELSE f1
        f3 == IF In(KW_formation, text)
              THEN incr(f2, "formation_issues") ELSE f2
    IN  f3

\* lines 109-117
RECURSIVE error_frequency(_)
error_frequency(errors) ==
    IF errors = <<>> THEN EmptyDict
    ELSE count_error(error_frequency(SubSeq(errors, 1, Len(errors) - 1)),
                     errors[Len(errors)])

\* lines 122-127: one pass of the loop body over `strength`
count_strength(freq, strength) ==
    LET text == lower(strength)
        f1 == IF In(KW_cover, text)
              THEN incr(freq, "cover_utilization") ELSE freq
        f2 == IF In(KW_formation, text) \/ In(KW_stack, text)
              THEN incr(f1, "formation_discipline") ELSE f1
        f3 == IF In(KW_weapon, text) \/ In(KW_muzzle, text)
              THEN incr(f2, "weapon_discipline") ELSE f2
    IN  f3

\* lines 120-127
RECURSIVE strength_frequency(_)
strength_frequency(strengths) ==
    IF strengths = <<>> THEN EmptyDict
    ELSE count_strength(strength_frequency(SubSeq(strengths, 1, Len(strengths) - 1)),
                        strengths[Len(strengths)])

\* lines 135-145
\* the per-frame entries put back into the order of their index fields
frames_analyzed_by_index(results) ==
    [i \in 1..Len(results) |->
        LET r == results[CHOOSE j \in 1..Len(results) :
                            Cardinality({m \in 1..Len(results) :
                                results[m].index < results[j].index
                                \/ (results[m].index = results[j].index /\ m < j)})
                            = i - 1]
        IN  [index |-> r.index,
             timestamp |-> r.timestamp,
             score |-> get(r.analysis, "score", 0),
             formation |-> formation_of(r),
             soldier_count |-> get(r.analysis, "soldier_count", 0),
             cover_summary |-> get(r.analysis, "cover_summary", EmptyDict)]]

\* lines 135-145
frames_analyzed(results) ==
    [i \in 1..Len(results) |->
        [index |-> results[i].index,
         timestamp |-> results[i].timestamp,
         score |-> get(results[i].analysis, "score", 0),
         formation |-> formation_of(results[i]),
         soldier_count |-> get(results[i].analysis, "soldier_count", 0),
         cover_summary |-> get(results[i].analysis, "cover_summary", EmptyDict)]]

\* the rating looked up from the rounded average
overall_performance_rating_of_rounded(results) ==
    [average_score |-> round1(avg_score(results).num, avg_score(results).den),
     min_score |-> min(scores(results)),
     max_score |-> max(scores(results)),
     score_range |-> max(scores(results)) - min(scores(results)),
     rating |-> _get_performance_rating(
                    [num |-> round1(avg_score(results).num, avg_score(results).den),
                     den |-> 10])]

\* lines 146-152
overall_performance(results) ==
    [average_score |-> round1(avg_score(results).num, avg_score(results).den),
     min_score |-> min(scores(results)),
     max_score |-> max(scores(results)),
     score_range |-> max(scores(results)) - min(scores(results)),
     rating |-> _get_performance_rating(avg_score(results))]

\* the list cut to five entries before it is counted
tactical_errors_truncated_first(errors, frequency) ==
    [total |-> Len(Prefix(errors, 5)),
     by_category |-> frequency,
     examples |-> Prefix(errors, 5)]

\* lines 156-160
tactical_errors(errors, frequency) ==
    [total |-> Len(errors),
     by_category |-> frequency,
     examples |-> Prefix(errors, 5)]

\* lines 161-165
tactical_strengths(strengths, frequency) ==
    [total |-> Len(strengths),
     by_category |-> frequency,
     examples |-> Prefix(strengths, 5)]

\* lines 130-171: the summary returned for a non-empty list.  formations_used
\* is list(set(formations)): a list without duplicates whose order the code
\* leaves open, kept here as the set of its elements.
aggregate_analysis(results, metadata) ==
    LET errors == all_errors(results)
        strengths == all_strengths(results)
        error_freq == error_frequency(errors)
        strength_freq == strength_frequency(strengths)
    IN
    [video_name |-> get(metadata, "filename", "Unknown"),
     duration |-> get(metadata, "duration", 0),
     resolution |-> get(metadata, "resolution", <<0, 0>>),
     frame_count |-> Len(results),
     frames_analyzed |-> frames_analyzed(results),
     overall_performance |-> overall_performance(results),
     cover_statistics |-> cover_stats(results),
     total_soldiers |-> total_soldier_count(results),
     formations_used |-> {formations(results)[i] : i \in 1..Len(results)},
     tactical_errors |-> tactical_errors(errors, error_freq),
     tactical_strengths |-> tactical_strengths(strengths, strength_freq),
     recommendations |->
        _generate_recommendations(avg_score(results), error_freq, strength_freq)]

(***************************************************************************)
(* Inputs.  The texts and frame analyses the vision model may return, the  *)
(* metadata dicts, and the arguments of the two helpers.                   *)
(***************************************************************************)
\* "Soldiers too tight together"
E_tight == <<"S","o","l","d","i","e","r","s"," ","t","o","o"," ","t","i","g","h","t"," ","t","o","g","e","t","h","e","r">>
\* "No cover used, exposed"
E_exposed == <<"N","o"," ","c","o","v","e","r"," ","u","s","e","d",","," ","e","x","p","o","s","e","d">>
\* "Tight FORMATION, Exposed"
E_multi == <<"T","i","g","h","t"," ","F","O","R","M","A","T","I","O","N",","," ","E","x","p","o","s","e","d">>
\* "Slow entry"
E_none == <<"S","l","o","w"," ","e","n","t","r","y">>
\* "Poor Spacing"
E_spacing == <<"P","o","o","r"," ","S","p","a","c","i","n","g">>
\* "Good use of cover"
S_cover == <<"G","o","o","d"," ","u","s","e"," ","o","f"," ","c","o","v","e","r">>
\* "Muzzle and weapon control"
S_muzzle == <<"M","u","z","z","l","e"," ","a","n","d"," ","w","e","a","p","o","n"," ","c","o","n","t","r","o","l">>
\* "Stack Formation held"
S_stack == <<"S","t","a","c","k"," ","F","o","r","m","a","t","i","o","n"," ","h","e","l","d">>
\* "Fast entry"
S_none == <<"F","a","s","t"," ","e","n","t","r","y">>

\* Frame analyses: the base analysis scores 65; each group varies one part.
Analyses ==
    {   \* scores
        [score |-> 60],
        [score |-> 80],
        [score |-> 100, timestamp |-> 5],
        \* cover counters and soldier counts
        [score |-> 65, soldier_count |-> 1,
         cover_summary |-> [full_cover |-> 1, partial_cover |-> 0,
                            no_cover |-> 0, exposed |-> 0]],
        [score |-> 65, soldier_count |-> 3,
         cover_summary |-> [full_cover |-> 2, partial_cover |-> 1,
                            no_cover |-> 0, exposed |-> 0]],
        \* no score, no soldier count, a counter missing and a foreign key
        [cover_summary |-> [no_cover |-> 1, exposed |-> 2, unknown |-> 4]],
        \* errors and strengths
        [score |-> 65, tactical_errors |-> <<E_tight, E_exposed>>],
        [score |-> 65, tactical_errors |-> <<E_multi, E_none, E_multi>>,
         tactical_strengths |-> <<S_muzzle, S_stack>>],
        [score |-> 80, tactical_errors |-> <<E_spacing>>,
         movement_analysis |-> [formation |-> "wedge"]],
        [score |-> 80, tactical_strengths |-> <<S_cover, S_none>>,
         movement_analysis |-> [spacing |-> "good"]]
    }

VideoMetadatas ==
    { [filename |-> "urban_warfare_training.mp4", duration |-> 10,
       resolution |-> <<1280, 720>>],
      [duration |-> 10] }

\* before aggregate_analysis has returned there is no summary
NoSummary == [none |-> TRUE]

\* all dicts over `keys` with counts in 1..MaxCount (a category that never
\* matched has no key)
CountMaps(keys) == UNION { [D -> 1..MaxCount] : D \in SUBSET keys }

ErrorCategories == {"spacing_issues", "cover_issues", "formation_issues"}
StrengthCategories == {"cover_utilization", "formation_discipline", "weapon_discipline"}

\* average scores: 0, 65, 69.999, 70, 80 and 209/3
AvgScores ==
    { [num |-> 0, den |-> 1], [num |-> 65, den |-> 1], [num |-> 69999, den |-> 1000],
      [num |-> 70, den |-> 1], [num |-> 80, den |-> 1], [num |-> 209, den |-> 3] }

\* scores handed to _get_performance_rating: -5, 0, 5, ..., 105 and the
\* values one thousandth below each band's lower bound
RatingScores ==
    { [num |-> 5 * k, den |-> 1] : k \in (0 - 1)..21 }
    \cup { [num |-> 1000 * b - 1, den |-> 1000] : b \in {50, 60, 75, 90} }

(***************************************************************************)
(* Stage 3: collecting the frame results and aggregating them.             *)
(***************************************************************************)
InitIdleExtract ==
    /\ ex_args = [num_frames |-> 0, positions |-> <<>>, resize_max |-> 0]
    /\ video = [exists |-> FALSE]
    /\ ex_pc = "idle"
    /\ ex_locals = EmptyDict
    /\ ex_next = 1
    /\ cap = "none"
    /\ releases = 0
    /\ seeks = <<>>
    /\ reads = <<>>
    /\ frames = <<>>
    /\ ex_result = [kind |-> "none"]
    /\ warnings = <<>>

InitIdleAgg ==
    /\ analysis_results = <<>>
    /\ video_metadata = [duration |-> 10]
    /\ agg_pc = "idle"
    /\ summary = NoSummary
    /\ agg_calls = 0

InitIdleRec ==
    /\ rec_avg = [num |-> 0, den |-> 1]
    /\ rec_errors = EmptyDict
    /\ rec_strengths = EmptyDict
    /\ rec_pc = "idle"
    /\ rec_out = <<>>

InitIdleRate == rate_calls = <<>>

InitIdlePerm ==
    /\ perm_results = <<>>
    /\ perm_order = <<>>
    /\ perm_pc = "idle"
    /\ perm_out = NoSummary

InitIdleResize ==
    /\ rz_size = <<0, 0>>
    /\ rz_max = 0
    /\ rz_pc = "idle"
    /\ rz_once = <<0, 0>>
    /\ rz_twice = <<0, 0>>

InitIdleValidate ==
    /\ val_pc = "idle"
    /\ val_result = EmptyDict
    /\ val_cap = "none"
    /\ val_releases = 0

InitIdleSave ==
    /\ esf_pc = "idle"
    /\ esf_out = <<>>

InitIdleReport ==
    /\ info_pc = "idle"
    /\ response = "none"
    /\ infographic = "none"
    /\ caught = <<>>
    /\ logs = <<>>
    /\ report_pc = "idle"
    /\ report = <<>>

InitAgg ==
    /\ analysis_results = <<>>
    /\ video_metadata \in VideoMetadatas
    /\ agg_pc = "collect"
    /\ summary = NoSummary
    /\ agg_calls = 0
    /\ InitIdleExtract
    /\ InitIdleValidate
    /\ InitIdleSave
    /\ InitIdleReport
    /\ InitIdleRec
    /\ InitIdleRate
    /\ InitIdlePerm
    /\ InitIdleResize

\* run_stage3_infographic.py lines 30-39: one more analysis is loaded
AddAnalysis ==
    /\ agg_pc = "collect"
    /\ Len(analysis_results) < MaxFrames
    /\ \E analysis \in Analyses :
          analysis_results' =
              Append(analysis_results,
                     [index |-> Len(analysis_results),
                      timestamp |-> get(analysis, "timestamp", 0),
                      analysis |-> analysis])
    /\ UNCHANGED <<video_metadata, agg_pc, summary, agg_calls, ex_vars, rec_vars, rate_vars, perm_vars, rz_vars,
                   val_vars, esf_vars, rep_vars>>

\* aggregate_analysis answering the empty list with an empty summary
Aggregate_empty_summary ==
    /\ agg_pc \in {"collect", "done"}
    /\ agg_calls < MaxAggCalls
    /\ agg_calls' = agg_calls + 1
    /\ agg_pc' = "done"
    /\ summary' = IF analysis_results = <<>>
                  THEN [frame_count |-> 0, frames_analyzed |-> <<>>]
                  ELSE aggregate_analysis(analysis_results, video_metadata)
    /\ UNCHANGED <<analysis_results, video_metadata, ex_vars, rec_vars, rate_vars,
                   perm_vars, rz_vars,
                   val_vars, esf_vars, rep_vars>>

\* aggregate_analysis keeping the frames of the calls before on the object
Aggregate_accumulating ==
    /\ agg_pc \in {"collect", "done"}
    /\ agg_calls < MaxAggCalls
    /\ agg_calls' = agg_calls + 1
    /\ IF analysis_results = <<>>
       THEN /\ agg_pc' = "ValueError"
            /\ summary' = summary
       ELSE /\ agg_pc' = "done"
            /\ summary' =
                  aggregate_analysis(
                      [i \in 1..(Len(analysis_results) * (agg_calls + 1)) |->
                          analysis_results[((i - 1) % Len(analysis_results)) + 1]],
                      video_metadata)
    /\ UNCHANGED <<analysis_results, video_metadata, ex_vars, rec_vars, rate_vars,
                   perm_vars, rz_vars,
                   val_vars, esf_vars, rep_vars>>

\* run_stage3_infographic.py lines 54-57: aggregate_analysis is called; a
\* caller may call it again on the list it holds
Aggregate ==
    /\ agg_pc \in {"collect", "done"}
    /\ agg_calls < MaxAggCalls
    /\ agg_calls' = agg_calls + 1
    /\ IF analysis_results = <<>>
       THEN /\ agg_pc' = "ValueError"
            /\ summary' = summary
       ELSE /\ agg_pc' = "done"
            /\ summary' = aggregate_analysis(analysis_results, video_metadata)
    /\ UNCHANGED <<analysis_results, video_metadata, ex_vars, rec_vars, rate_vars, perm_vars, rz_vars,
                   val_vars, esf_vars, rep_vars>>

NextAgg == AddAnalysis \/ Aggregate

SpecAgg == InitAgg /\ [][NextAgg]_vars

(***************************************************************************)
(* _generate_recommendations on arbitrary arguments.                       *)
(***************************************************************************)
InitRec ==
    /\ rec_avg \in AvgScores
    /\ rec_errors \in CountMaps(ErrorCategories)
    /\ rec_strengths \in CountMaps(StrengthCategories)
    /\ rec_pc = "call"
    /\ rec_out = <<>>
    /\ InitIdleExtract
    /\ InitIdleValidate
    /\ InitIdleSave
    /\ InitIdleReport
    /\ InitIdleAgg
    /\ InitIdleRate
    /\ InitIdlePerm
    /\ InitIdleResize

GenerateRecommendations ==
    /\ rec_pc = "call"
    /\ rec_out' = _generate_recommendations(rec_avg, rec_errors, rec_strengths)
    /\ rec_pc' = "returned"
    /\ UNCHANGED <<rec_avg, rec_errors, rec_strengths, ex_vars, agg_vars, rate_vars, perm_vars, rz_vars,
                   val_vars, esf_vars, rep_vars>>

NextRec == GenerateRecommendations

SpecRec == InitRec /\ [][NextRec]_vars

(***************************************************************************)
(* _get_performance_rating on arbitrary scores.                            *)
(***************************************************************************)
InitRate ==
    /\ rate_calls = <<>>
    /\ InitIdleExtract
    /\ InitIdleValidate
    /\ InitIdleSave
    /\ InitIdleReport
    /\ InitIdleAgg
    /\ InitIdleRec
    /\ InitIdlePerm
    /\ InitIdleResize

RateScore ==
    /\ Len(rate_calls) < MaxCalls
    /\ \E score \in RatingScores :
          rate_calls' = Append(rate_calls,
                               [score |-> score,
                                rating |-> _get_performance_rating(score)])
    /\ UNCHANGED <<ex_vars, agg_vars, rec_vars, perm_vars, rz_vars,
                   val_vars, esf_vars, rep_vars>>

NextRate == RateScore

SpecRate == InitRate /\ [][NextRate]_vars

(***************************************************************************)
(* Stage 1: one call of extract_key_frames on one video.                   *)
(***************************************************************************)
\* positions in quarters: 0.0, 0.25, 0.5, 0.75, 1.0
PositionValues == 0..4

PositionLists == UNION { [1..n -> PositionValues] : n \in 0..MaxPositions }

\* resize_max as passed: None (0), or a width some frames exceed
ResizeArgs == {0, 100}

VideoSizes == { <<1280, 720>>, <<90, 160>> }

\* an .mp4 file of 10 MB
PlainFile == [suffix |-> <<".","m","p","4">>, st_size |-> 10 * BYTES_PER_MB]

\* an upper-case suffix, a suffix that is not supported, a file of exactly
\* MAX_FILE_SIZE_MB, one byte more, and a file failing both checks
OddFiles ==
    { [suffix |-> <<".","M","P","4">>, st_size |-> 10 * BYTES_PER_MB],
      [suffix |-> <<".","t","x","t">>, st_size |-> 10 * BYTES_PER_MB],
      [suffix |-> <<".","m","p","4">>, st_size |-> MAX_FILE_SIZE_MB * BYTES_PER_MB],
      [suffix |-> <<".","m","p","4">>, st_size |-> MAX_FILE_SIZE_MB * BYTES_PER_MB + 1],
      [suffix |-> <<".","t","x","t">>, st_size |-> MAX_FILE_SIZE_MB * BYTES_PER_MB + 1] }

\* frame counts at 30 fps of exactly MAX_VIDEO_DURATION and of one frame more
LongFrameCounts == {MAX_VIDEO_DURATION * 30, MAX_VIDEO_DURATION * 30 + 1}

Videos ==
    { [exists |-> FALSE] }
    \cup { [exists |-> TRUE, suffix |-> f.suffix, st_size |-> f.st_size,
            opens |-> FALSE] : f \in {PlainFile} \cup OddFiles }
    \cup [exists : {TRUE}, suffix : {PlainFile.suffix}, st_size : {PlainFile.st_size},
          opens : {TRUE}, fps : {0, 30},
          total_frames : 0..MaxTotalFrames, size : VideoSizes]
    \cup { [exists |-> TRUE, suffix |-> f.suffix, st_size |-> f.st_size,
            opens |-> TRUE, fps |-> 30, total_frames |-> 2,
            size |-> <<1280, 720>>] : f \in OddFiles }
    \cup [exists : {TRUE}, suffix : {PlainFile.suffix}, st_size : {PlainFile.st_size},
          opens : {TRUE}, fps : {0, 30},
          total_frames : LongFrameCounts, size : {<<1280, 720>>}]

InitExtract ==
    /\ ex_args \in [num_frames : 0..MaxNumFrames, positions : PositionLists,
                    resize_max : ResizeArgs]
    /\ video \in Videos
    /\ ex_pc = "call"
    /\ ex_locals = EmptyDict
    /\ ex_next = 1
    /\ cap = "none"
    /\ releases = 0
    /\ seeks = <<>>
    /\ reads = <<>>
    /\ frames = <<>>
    /\ ex_result = [kind |-> "none"]
    /\ warnings = <<>>
    /\ val_pc = "call"
    /\ val_result = EmptyDict
    /\ val_cap = "none"
    /\ val_releases = 0
    /\ esf_pc = "call"
    /\ esf_out = <<>>
    /\ InitIdleAgg
    /\ InitIdleRec
    /\ InitIdleRate
    /\ InitIdlePerm
    /\ InitIdleResize
    /\ InitIdleReport

NextExtract ==
    \/ ValidateVideo
    \/ ExtractStart
    \/ ExtractPosition
    \/ ExtractReturn
    \/ SaveFrames

SpecExtract == InitExtract /\ [][NextExtract]_vars

(***************************************************************************)
(* aggregate_analysis on a list of frame results and on the same results   *)
(* handed over in another order.                                           *)
(***************************************************************************)
\* frame analyses that differ in score, cover counters, soldier count, texts
PermAnalyses ==
    { [score |-> 100, timestamp |-> 5],
      [score |-> 65, soldier_count |-> 3,
       cover_summary |-> [full_cover |-> 2, partial_cover |-> 1,
                          no_cover |-> 0, exposed |-> 0]],
      [score |-> 70, tactical_errors |-> <<E_tight, E_exposed>>],
      [score |-> 65, tactical_errors |-> <<E_multi, E_none, E_multi>>,
       tactical_strengths |-> <<S_muzzle, S_stack>>],
      [score |-> 80, tactical_errors |-> <<E_spacing>>,
       tactical_strengths |-> <<S_cover, S_none, S_muzzle, S_stack>>,
       movement_analysis |-> [formation |-> "wedge"]] }

\* the lists run_stage3_infographic.py lines 30-39 can build from them
RECURSIVE ResultLists(_)
ResultLists(n) ==
    IF n = 0 THEN {<<>>}
    ELSE { Append(results, [index |-> n - 1,
                            timestamp |-> get(analysis, "timestamp", 0),
                            analysis |-> analysis]) :
              results \in ResultLists(n - 1), analysis \in PermAnalyses }

\* the orders in which n results can be handed over
Orders(n) == { order \in [1..n -> 1..n] : \A i, j \in 1..n : order[i] = order[j] => i = j }

Permuted(results, order) == [i \in 1..Len(results) |-> results[order[i]]]

InitPerm ==
    /\ \E n \in 1..MaxFrames :
          /\ perm_results \in ResultLists(n)
          /\ perm_order \in Orders(n)
    /\ perm_pc = "call"
    /\ perm_out = NoSummary
    /\ InitIdleExtract
    /\ InitIdleValidate
    /\ InitIdleSave
    /\ InitIdleReport
    /\ InitIdleAgg
    /\ InitIdleRec
    /\ InitIdleRate
    /\ InitIdleResize

AggregatePermuted ==
    /\ perm_pc = "call"
    /\ perm_pc' = "done"
    /\ perm_out' =
          [original |-> aggregate_analysis(perm_results, video_metadata),
           permuted |-> aggregate_analysis(Permuted(perm_results, perm_order),
                                           video_metadata)]
    /\ UNCHANGED <<perm_results, perm_order, ex_vars, agg_vars, rec_vars,
                   rate_vars, rz_vars, val_vars, esf_vars, rep_vars>>

NextPerm == AggregatePermuted

SpecPerm == InitPerm /\ [][NextPerm]_vars

(***************************************************************************)
(* Stage 3 after the aggregation: generate_infographic and                 *)
(* save_summary_report on the summary aggregate_analysis returned.         *)
(***************************************************************************)
\* what self.image_model.generate_content can do: raise, answer with an image
\* part, with an image part Image.open rejects, with text parts whose text
\* can be read, or with no image part and a .text accessor that raises
Responses == {"raises", "image", "bad_image", "text", "unreadable"}

\* any answer with parts taken for an image
infographic_of_any_part(resp) ==
    IF resp \in {"image", "text", "unreadable"} THEN "image" ELSE "None"

\* the value generate_infographic returns
infographic_of(resp) == IF resp = "image" THEN "image" ELSE "None"

\* the exceptions its two handlers catch: the outer `except Exception` and
\* the inner bare `except` around response.text
caught_of(resp) ==
    IF resp \in {"raises", "bad_image"} THEN <<"generation error">>
    ELSE IF resp = "unreadable" THEN <<"response text">>
    ELSE <<>>

\* the lines it prints about what went wrong, each with the failure it tells
\* of: the outer handler prints the exception, the inner handler is `pass`,
\* and a response without an image gets the "no image data found" line
logged_of(resp) ==
    IF resp \in {"raises", "bad_image"}
    THEN << [line |-> "Infographic generation error", about |-> "generation error"] >>
    ELSE IF resp \in {"text", "unreadable"}
    THEN << [line |-> "Response received but no image data found", about |-> "no image"] >>
    ELSE <<>>

GenerateInfographic ==
    /\ info_pc = "call"
    /\ agg_pc = "done"
    /\ \E resp \in Responses :
          /\ response' = resp
          /\ infographic' = infographic_of(resp)
          /\ caught' = caught \o caught_of(resp)
          /\ logs' = logs \o logged_of(resp)
    /\ info_pc' = "returned"
    /\ UNCHANGED <<report_pc, report, ex_vars, agg_vars, rec_vars, rate_vars,
                   perm_vars, rz_vars, val_vars, esf_vars>>

\* "=" * 80, and the same after "\n"
Rule == [kind |-> "rule"]

Title(text) == [kind |-> "title", text |-> text]

\* str.upper() of the formation names the analyses carry
str_upper(text) ==
    CASE text = "wedge" -> "WEDGE"
      [] text = "unknown" -> "UNKNOWN"
      [] text = "line" -> "LINE"
      [] text = "column" -> "COLUMN"

\* a list numbered from zero
numbered_from_zero(items) ==
    [i \in 1..Len(items) |-> [kind |-> "item", number |-> i - 1, text |-> items[i]]]

\* `for i, x in enumerate(items, 1): report_lines.append(f"\n{i}. {x}")`
numbered(items) ==
    [i \in 1..Len(items) |-> [kind |-> "item", number |-> i, text |-> items[i]]]

\* lines 417-421, one line per entry of summary['frames_analyzed']
frame_lines(frames_list) ==
    [i \in 1..Len(frames_list) |->
        [kind |-> "frame",
         number |-> frames_list[i].index + 1,
         timestamp |-> format_1f([num |-> frames_list[i].timestamp, den |-> 1]),
         score |-> frames_list[i].score,
         formation |-> str_upper(frames_list[i].formation)]]

\* lines 389-451: report_lines, one record per element of the list
report_lines(s) ==
    << Rule, Title("TACTICAL PERFORMANCE SUMMARY"), Rule,
       [kind |-> "field", label |-> "Video", value |-> s.video_name],
       [kind |-> "field", label |-> "Duration",
        value |-> format_1f([num |-> s.duration, den |-> 1])],
       [kind |-> "field", label |-> "Frames Analyzed", value |-> s.frame_count],
       [kind |-> "field", label |-> "Total Soldiers", value |-> s.total_soldiers],
       Rule, Title("OVERALL PERFORMANCE"), Rule,
       [kind |-> "field", label |-> "Average Score",
        value |-> s.overall_performance.average_score],
       [kind |-> "field", label |-> "Rating", value |-> s.overall_performance.rating],
       [kind |-> "field", label |-> "Score Range",
        value |-> <<s.overall_performance.min_score, s.overall_performance.max_score>>],
       Rule, Title("FRAME-BY-FRAME SCORES"), Rule >>
    \o frame_lines(s.frames_analyzed)
    \o << Rule, Title("COVER UTILIZATION"), Rule,
          [kind |-> "field", label |-> "Full Cover", value |-> s.cover_statistics.full_cover],
          [kind |-> "field", label |-> "Partial Cover",
           value |-> s.cover_statistics.partial_cover],
          [kind |-> "field", label |-> "No Cover", value |-> s.cover_statistics.no_cover],
          [kind |-> "field", label |-> "Exposed", value |-> s.cover_statistics.exposed],
          Rule,
          [kind |-> "title", text |-> "TACTICAL ERRORS", total |-> s.tactical_errors.total],
          Rule >>
    \o numbered(s.tactical_errors.examples)
    \o << Rule,
          [kind |-> "title", text |-> "TACTICAL STRENGTHS",
           total |-> s.tactical_strengths.total],
          Rule >>
    \o numbered(s.tactical_strengths.examples)
    \o << Rule, Title("TRAINING RECOMMENDATIONS"), Rule >>
    \o numbered(s.recommendations)
    \o << Rule, Title("END OF REPORT"), Rule >>

SaveSummaryReport ==
    /\ report_pc = "call"
    /\ agg_pc = "done"
    /\ report' = report_lines(summary)
    /\ report_pc' = "saved"
    /\ UNCHANGED <<info_pc, response, infographic, caught, logs, ex_vars, agg_vars,
                   rec_vars, rate_vars, perm_vars, rz_vars, val_vars, esf_vars>>

\* run_stage3_infographic.py lines 29-48: the analyses loaded from the JSON
\* files in index order and one of the metadata dicts
InitReport ==
    /\ \E n \in 1..MaxFrames : analysis_results \in ResultLists(n)
    /\ video_metadata \in VideoMetadatas
    /\ agg_pc = "collect"
    /\ summary = NoSummary
    /\ agg_calls = 0
    /\ info_pc = "call"
    /\ response = "none"
    /\ infographic = "none"
    /\ caught = <<>>
    /\ logs = <<>>
    /\ report_pc = "call"
    /\ report = <<>>
    /\ InitIdleExtract
    /\ InitIdleValidate
    /\ InitIdleSave
    /\ InitIdleRec
    /\ InitIdleRate
    /\ InitIdlePerm
    /\ InitIdleResize

NextReport == Aggregate \/ GenerateInfographic \/ SaveSummaryReport

SpecReport == InitReport /\ [][NextReport]_vars

(***************************************************************************)
(* aggregate_analysis on long lists of frame results whose average lies    *)
(* next to a band limit.                                                   *)
(***************************************************************************)
\* the scores on the two sides of the limits 90, 75, 70, 60 and 50
BandScores == { <<90, 89>>, <<75, 74>>, <<70, 69>>, <<60, 59>>, <<50, 49>> }

\* the list lengths for which round1 gives the tenth Python's round gives
BandLengths == { n \in 1..MaxBandFrames : n % 20 # 0 }

\* n frame results, the first k with the higher score of the pair
band_results(n, k, pair) ==
    [i \in 1..n |->
        [index |-> i - 1,
         timestamp |-> 0,
         analysis |-> [score |-> IF i <= k THEN pair[1] ELSE pair[2]]]]

InitBand ==
    /\ \E n \in BandLengths : \E k \in 0..n : \E pair \in BandScores :
          analysis_results = band_results(n, k, pair)
    /\ video_metadata \in VideoMetadatas
    /\ agg_pc = "collect"
    /\ summary = NoSummary
    /\ agg_calls = 0
    /\ InitIdleExtract
    /\ InitIdleValidate
    /\ InitIdleSave
    /\ InitIdleReport
    /\ InitIdleRec
    /\ InitIdleRate
    /\ InitIdlePerm
    /\ InitIdleResize

NextBand == Aggregate

SpecBand == InitBand /\ [][NextBand]_vars

(***************************************************************************)
(* _resize_image on an image, then on its own result.                      *)
(***************************************************************************)
InitResize ==
    /\ rz_size \in (1..MaxDim) \X (1..MaxDim)
    /\ rz_max \in 1..MaxDim
    /\ rz_pc = "call"
    /\ rz_once = <<0, 0>>
    /\ rz_twice = <<0, 0>>
    /\ InitIdleExtract
    /\ InitIdleValidate
    /\ InitIdleSave
    /\ InitIdleReport
    /\ InitIdleAgg
    /\ InitIdleRec
    /\ InitIdleRate
    /\ InitIdlePerm

ResizeOnce ==
    /\ rz_pc = "call"
    /\ rz_pc' = "once"
    /\ rz_once' = _resize_image(rz_size, rz_max)
    /\ UNCHANGED <<rz_size, rz_max, rz_twice, ex_vars, agg_vars, rec_vars,
                   rate_vars, perm_vars, val_vars, esf_vars, rep_vars>>

ResizeAgain ==
    /\ rz_pc = "once"
    /\ rz_pc' = "twice"
    /\ rz_twice' = _resize_image(rz_once, rz_max)
    /\ UNCHANGED <<rz_size, rz_max, rz_once, ex_vars, agg_vars, rec_vars,
                   rate_vars, perm_vars, val_vars, esf_vars, rep_vars>>

NextResize == ResizeOnce \/ ResizeAgain

SpecResize == InitResize /\ [][NextResize]_vars

(***************************************************************************)
(* The whole model.                                                        *)
(***************************************************************************)
Init == InitExtract

Next == NextExtract

Spec == Init /\ [][Next]_vars

(***************************************************************************)
(* Properties.  What the inputs are is restated here from the state, not   *)
(* taken from the operators that model the code.                           *)
(***************************************************************************)
\* ---------------------------------------------------------------- C1
\* C1: for every total_frames >= 1 and every position in [0, 1], 1 included,
\* the frame number extract_key_frames computes and seeks to lies in
\* 0..total_frames-1.
C1_FrameIndexInRange ==
    Len(seeks) > 0 =>
        (video.total_frames >= 1 =>
            \A i \in 1..Len(seeks) : seeks[i] \in 0..(video.total_frames - 1))

\* ---------------------------------------------------------------- C2..C10
Done == agg_pc = "done"

NFrames == Len(analysis_results)

\* the score of frame i, 0 for a record without one
ScoreAt(i) ==
    IF "score" \in DOMAIN analysis_results[i].analysis
    THEN analysis_results[i].analysis.score
    ELSE 0

RECURSIVE SumTo(_, _)
SumTo(f, n) == IF n = 0 THEN 0 ELSE SumTo(f, n - 1) + f[n]

ScoreSum == SumTo([i \in 1..NFrames |-> ScoreAt(i)], NFrames)

\* the texts frame i carries under key (none without the key)
TextsAt(i, key) ==
    IF key \in DOMAIN analysis_results[i].analysis
    THEN analysis_results[i].analysis[key]
    ELSE <<>>

\* the texts of frames 1..n in frame order, then within-frame order
RECURSIVE TextsTo(_, _)
TextsTo(n, key) == IF n = 0 THEN <<>> ELSE TextsTo(n - 1, key) \o TextsAt(n, key)

AllTexts(key) == TextsTo(NFrames, key)

\* the lower-cased text contains one of the trigger words
Triggers(text, kws) ==
    LET lowered == lower(text)
    IN  \E kw \in kws : In(kw, lowered)

\* how many entries of texts contain one of the trigger words
Matching(texts, kws) == Cardinality({i \in 1..Len(texts) : Triggers(texts[i], kws)})

SpacingTriggers == {KW_spacing, KW_tight}
CoverIssueTriggers == {KW_cover, KW_exposed}
FormationIssueTriggers == {KW_formation}
CoverUseTriggers == {KW_cover}
FormationDisciplineTriggers == {KW_formation, KW_stack}
WeaponTriggers == {KW_weapon, KW_muzzle}

\* the count stored under a category, 0 when the key is missing
CountOf(d, cat) == IF cat \in DOMAIN d THEN d[cat] ELSE 0

FirstN(seq, n) == [i \in 1..(IF Len(seq) < n THEN Len(seq) ELSE n) |-> seq[i]]

\* ---------------------------------------------------------------- C2
C2_Case ==
    /\ Done
    /\ AllTexts("tactical_errors") = <<E_tight, E_exposed>>
    /\ Matching(AllTexts("tactical_strengths"), CoverUseTriggers) < 2
    /\ Matching(AllTexts("tactical_strengths"), FormationDisciplineTriggers) < 2
    /\ Matching(AllTexts("tactical_strengths"), WeaponTriggers) < 2
    /\ ScoreSum = 65 * NFrames

\* C2 as stated: with errors ["Soldiers too tight together", "No cover used,
\* exposed"], no strength category at 2 and average 65, the recommendations
\* are the additional-training text followed by the two defaults.
C2_Original ==
    C2_Case => summary.recommendations =
                  <<REC_FUNDAMENTALS, REC_DEFAULT_1, REC_DEFAULT_2>>

\* C2 amended: in that case the recommendations list is exactly the
\* additional-training text; the two defaults are not added, because the
\* average < 70 rule fired.
C2_OnlyFundamentals ==
    C2_Case => summary.recommendations = <<REC_FUNDAMENTALS>>

C2_Witness ==
    /\ C2_Case
    /\ CountOf(summary.tactical_errors.by_category, "spacing_issues") = 1
    /\ CountOf(summary.tactical_errors.by_category, "cover_issues") = 1

\* ---------------------------------------------------------------- C3, C4
Returned == rec_pc = "returned"

RuleTexts ==
    <<REC_FUNDAMENTALS, REC_SPACING, REC_COVER, REC_FORMATION, REC_WEAPON, REC_ENTRY>>

\* which of the six conditional rules hold for the arguments of the call
RuleHolds ==
    << rec_avg.num < 70 * rec_avg.den,
       CountOf(rec_errors, "spacing_issues") >= 2,
       CountOf(rec_errors, "cover_issues") >= 2,
       CountOf(rec_errors, "formation_issues") >= 2,
       CountOf(rec_strengths, "weapon_discipline") >= 2,
       CountOf(rec_strengths, "formation_discipline") >= 2 >>

NoRuleHolds == \A i \in 1..6 : ~RuleHolds[i]

\* the texts of the rules that hold, in rule order
FiredTexts ==
    LET F[i \in 0..6] ==
            IF i = 0 THEN <<>>
            ELSE IF RuleHolds[i] THEN Append(F[i - 1], RuleTexts[i]) ELSE F[i - 1]
    IN  F[6]

HasDefault ==
    \E i \in 1..Len(rec_out) : rec_out[i] \in {REC_DEFAULT_1, REC_DEFAULT_2}

\* C3: the two default recommendations are in the result iff none of the six
\* conditional rules fired, and then they are the whole list, in order.
C3_DefaultsIffNoneFired ==
    Returned =>
        /\ HasDefault <=> NoRuleHolds
        /\ HasDefault => rec_out = <<REC_DEFAULT_1, REC_DEFAULT_2>>

C3_Witness ==
    /\ Returned
    /\ NoRuleHolds
    /\ rec_errors # EmptyDict
    /\ rec_out = <<REC_DEFAULT_1, REC_DEFAULT_2>>

\* C4 as stated: for every average and every pair of category maps, the
\* recommendations are the first (at most 5) texts of the rules that hold,
\* taken in the fixed rule order.
C4_Original == Returned => rec_out = FirstN(FiredTexts, 5)

\* C4 amended: that is the result whenever at least one rule holds; when no
\* rule holds the result is the two default recommendations, not the empty
\* list.
C4_RulesInOrder ==
    Returned =>
        rec_out = IF NoRuleHolds
                  THEN <<REC_DEFAULT_1, REC_DEFAULT_2>>
                  ELSE FirstN(FiredTexts, 5)

\* thresholds met exactly: average 70 (not < 70), spacing 2, weapon 2, and
\* cover 1 below its threshold
C4_Witness ==
    /\ Returned
    /\ rec_avg = [num |-> 70, den |-> 1]
    /\ CountOf(rec_errors, "spacing_issues") = 2
    /\ CountOf(rec_errors, "cover_issues") = 1
    /\ "formation_issues" \notin DOMAIN rec_errors
    /\ CountOf(rec_strengths, "weapon_discipline") = 2
    /\ rec_out = <<REC_SPACING, REC_WEAPON>>

\* ---------------------------------------------------------------- C5
AllSixQualify ==
    /\ ScoreSum < 70 * NFrames
    /\ Matching(AllTexts("tactical_errors"), SpacingTriggers) >= 2
    /\ Matching(AllTexts("tactical_errors"), CoverIssueTriggers) >= 2
    /\ Matching(AllTexts("tactical_errors"), FormationIssueTriggers) >= 2
    /\ Matching(AllTexts("tactical_strengths"), WeaponTriggers) >= 2
    /\ Matching(AllTexts("tactical_strengths"), FormationDisciplineTriggers) >= 2

\* C5: the recommendations of a summary have between 1 and 5 entries; when
\* all six conditional rules qualify, the formation_discipline text is the
\* one left out.
C5_OneToFive ==
    Done =>
        /\ Len(summary.recommendations) \in 1..5
        /\ AllSixQualify =>
              summary.recommendations =
                  <<REC_FUNDAMENTALS, REC_SPACING, REC_COVER, REC_FORMATION, REC_WEAPON>>

C5_Witness == Done /\ AllSixQualify /\ Len(summary.recommendations) = 5

\* ---------------------------------------------------------------- C6
Bands ==
    <<"Requires Remedial Training", "Needs Improvement", "Satisfactory", "Good", "Excellent">>

BandRank(rating) == CHOOSE i \in 1..5 : Bands[i] = rating

\* the band of the quotient n/d by the inclusive lower bounds
BandOf(n, d) ==
    IF n >= 90 * d THEN 5
    ELSE IF n >= 75 * d THEN 4
    ELSE IF n >= 60 * d THEN 3
    ELSE IF n >= 50 * d THEN 2
    ELSE 1

IsScore(call, n, d) == call.score.num * d = n * call.score.den

\* C6: every score gets exactly one band, by inclusive lower bounds 90, 75,
\* 60, 50; 90 is Excellent, 89.999 Good, 50 Needs Improvement, 49.999
\* Requires Remedial Training; the band is monotone in the score.
C6_RatingBands ==
    /\ \A i \in 1..Len(rate_calls) :
          LET call == rate_calls[i] IN
          /\ call.rating \in {Bands[b] : b \in 1..5}
          /\ call.rating = Bands[BandOf(call.score.num, call.score.den)]
          /\ IsScore(call, 90, 1) => call.rating = "Excellent"
          /\ IsScore(call, 89999, 1000) => call.rating = "Good"
          /\ IsScore(call, 50, 1) => call.rating = "Needs Improvement"
          /\ IsScore(call, 49999, 1000) => call.rating = "Requires Remedial Training"
    /\ \A i, j \in 1..Len(rate_calls) :
          rate_calls[i].score.num * rate_calls[j].score.den
              <= rate_calls[j].score.num * rate_calls[i].score.den
          => BandRank(rate_calls[i].rating) <= BandRank(rate_calls[j].rating)

C6_Witness ==
    /\ Len(rate_calls) = 2
    /\ IsScore(rate_calls[1], 90, 1) /\ rate_calls[1].rating = "Excellent"
    /\ IsScore(rate_calls[2], 89999, 1000) /\ rate_calls[2].rating = "Good"

\* ---------------------------------------------------------------- C7
Overall == summary.overall_performance

MinMaxRange ==
    /\ \A i \in 1..NFrames : Overall.min_score <= ScoreAt(i)
    /\ \E i \in 1..NFrames : Overall.min_score = ScoreAt(i)
    /\ \A i \in 1..NFrames : Overall.max_score >= ScoreAt(i)
    /\ \E i \in 1..NFrames : Overall.max_score = ScoreAt(i)
    /\ Overall.score_range = Overall.max_score - Overall.min_score

ScoresAre(seq) == NFrames = Len(seq) /\ \A i \in 1..NFrames : ScoreAt(i) = seq[i]

Example806010 ==
    ScoresAre(<<80, 60, 100>>) =>
        /\ Overall.average_score = 800
        /\ Overall.min_score = 60
        /\ Overall.max_score = 100
        /\ Overall.score_range = 40
        /\ Overall.rating = "Good"

\* C7 as stated: the summary reports average = sum(scores)/count (average_score
\* is kept in tenths, so average_score * count = 10 * sum), the minimum, the
\* maximum and their difference, a missing score counting 0.
C7_Original ==
    Done =>
        /\ Overall.average_score * NFrames = 10 * ScoreSum
        /\ MinMaxRange
        /\ Example806010

\* C7 amended: the reported average is sum(scores)/count rounded to one
\* decimal (the nearest tenth, the even one when two are equally near); min,
\* max, range and the [80, 60, 100] example are as stated.
C7_ScoreStatistics ==
    Done =>
        /\ 2 * (10 * ScoreSum - Overall.average_score * NFrames) <= NFrames
        /\ 2 * (Overall.average_score * NFrames - 10 * ScoreSum) <= NFrames
        /\ (2 * (10 * ScoreSum - Overall.average_score * NFrames) = NFrames
            \/ 2 * (Overall.average_score * NFrames - 10 * ScoreSum) = NFrames)
           => Overall.average_score % 2 = 0
        /\ MinMaxRange
        /\ Example806010

\* a frame without a score among frames with one, and an average that is
\* not a whole number of tenths
C7_Witness ==
    /\ Done
    /\ \E i \in 1..NFrames : "score" \notin DOMAIN analysis_results[i].analysis
    /\ Overall.min_score = 0
    /\ Overall.max_score > 0
    /\ (10 * ScoreSum) % NFrames # 0

\* ---------------------------------------------------------------- C8
ErrorCounts == summary.tactical_errors.by_category
StrengthCounts == summary.tactical_strengths.by_category

\* the category's key is present exactly when some text triggers it, and
\* holds the number of texts that do
CountsMatching(counts, cat, texts, kws) ==
    LET n == Matching(texts, kws)
    IN  /\ CountOf(counts, cat) = n
        /\ cat \in DOMAIN counts <=> n > 0

\* C8: every error text adds 1 to each of spacing_issues, cover_issues and
\* formation_issues whose trigger occurs in its lower-cased form (once per
\* text), likewise the strengths with cover_utilization, formation_discipline
\* and weapon_discipline; a text without a trigger adds nothing.
C8_AllMatch ==
    Done =>
        /\ CountsMatching(ErrorCounts, "spacing_issues",
                          AllTexts("tactical_errors"), SpacingTriggers)
        /\ CountsMatching(ErrorCounts, "cover_issues",
                          AllTexts("tactical_errors"), CoverIssueTriggers)
        /\ CountsMatching(ErrorCounts, "formation_issues",
                          AllTexts("tactical_errors"), FormationIssueTriggers)
        /\ DOMAIN ErrorCounts \subseteq ErrorCategories
        /\ CountsMatching(StrengthCounts, "cover_utilization",
                          AllTexts("tactical_strengths"), CoverUseTriggers)
        /\ CountsMatching(StrengthCounts, "formation_discipline",
                          AllTexts("tactical_strengths"), FormationDisciplineTriggers)
        /\ CountsMatching(StrengthCounts, "weapon_discipline",
                          AllTexts("tactical_strengths"), WeaponTriggers)
        /\ DOMAIN StrengthCounts \subseteq StrengthCategories
        /\ AllTexts("tactical_errors") = <<E_tight, E_exposed>> =>
              /\ ErrorCounts["spacing_issues"] = 1
              /\ ErrorCounts["cover_issues"] = 1

\* "Tight FORMATION, Exposed" twice and "Slow entry" once: three categories
\* at 2 from two texts
C8_Witness ==
    /\ Done
    /\ AllTexts("tactical_errors") = <<E_multi, E_none, E_multi>>
    /\ ErrorCounts["spacing_issues"] = 2
    /\ ErrorCounts["cover_issues"] = 2
    /\ ErrorCounts["formation_issues"] = 2
    /\ StrengthCounts["weapon_discipline"] = 1

\* ---------------------------------------------------------------- C9
CoverAt(i, key) ==
    IF "cover_summary" \in DOMAIN analysis_results[i].analysis
       /\ key \in DOMAIN analysis_results[i].analysis.cover_summary
    THEN analysis_results[i].analysis.cover_summary[key]
    ELSE 0

SoldiersAt(i) ==
    IF "soldier_count" \in DOMAIN analysis_results[i].analysis
    THEN analysis_results[i].analysis.soldier_count
    ELSE 0

CoverIs(i, full, partial, no, exposed) ==
    /\ CoverAt(i, "full_cover") = full
    /\ CoverAt(i, "partial_cover") = partial
    /\ CoverAt(i, "no_cover") = no
    /\ CoverAt(i, "exposed") = exposed

\* C9: cover_statistics is the sum over all frames of full_cover,
\* partial_cover, no_cover and exposed (a missing counter counts 0, other
\* keys are ignored), total_soldiers the sum of the soldier counts; frames
\* {1,0,0,0} and {2,1,0,0} give {3,1,0,0}.
C9_CoverTotals ==
    Done =>
        /\ DOMAIN summary.cover_statistics =
              {"full_cover", "partial_cover", "no_cover", "exposed"}
        /\ \A key \in DOMAIN summary.cover_statistics :
              summary.cover_statistics[key] =
                  SumTo([i \in 1..NFrames |-> CoverAt(i, key)], NFrames)
        /\ summary.total_soldiers =
              SumTo([i \in 1..NFrames |-> SoldiersAt(i)], NFrames)
        /\ (NFrames = 2 /\ CoverIs(1, 1, 0, 0, 0) /\ CoverIs(2, 2, 1, 0, 0)) =>
              summary.cover_statistics =
                  [full_cover |-> 3, partial_cover |-> 1, no_cover |-> 0, exposed |-> 0]

\* the two frames of the example followed by a frame with a missing counter
\* and a foreign key
C9_Witness ==
    /\ Done
    /\ NFrames = 3
    /\ CoverIs(1, 1, 0, 0, 0)
    /\ CoverIs(2, 2, 1, 0, 0)
    /\ "score" \notin DOMAIN analysis_results[3].analysis
    /\ "cover_summary" \in DOMAIN analysis_results[3].analysis
    /\ "unknown" \in DOMAIN analysis_results[3].analysis.cover_summary
    /\ "full_cover" \notin DOMAIN analysis_results[3].analysis.cover_summary
    /\ summary.cover_statistics =
          [full_cover |-> 3, partial_cover |-> 1, no_cover |-> 1, exposed |-> 2]
    /\ summary.total_soldiers = 4

\* ---------------------------------------------------------------- C10
\* C10: examples is the first min(5, n) entries of the frames' texts in frame
\* order then within-frame order, total is n, and by_category counts over all
\* n entries, for the errors and for the strengths.
C10_ExamplesAndTotals ==
    Done =>
        /\ summary.tactical_errors.examples = FirstN(AllTexts("tactical_errors"), 5)
        /\ summary.tactical_errors.total = Len(AllTexts("tactical_errors"))
        /\ CountOf(ErrorCounts, "spacing_issues")
              = Matching(AllTexts("tactical_errors"), SpacingTriggers)
        /\ CountOf(ErrorCounts, "cover_issues")
              = Matching(AllTexts("tactical_errors"), CoverIssueTriggers)
        /\ CountOf(ErrorCounts, "formation_issues")
              = Matching(AllTexts("tactical_errors"), FormationIssueTriggers)
        /\ summary.tactical_strengths.examples = FirstN(AllTexts("tactical_strengths"), 5)
        /\ summary.tactical_strengths.total = Len(AllTexts("tactical_strengths"))
        /\ CountOf(StrengthCounts, "cover_utilization")
              = Matching(AllTexts("tactical_strengths"), CoverUseTriggers)
        /\ CountOf(StrengthCounts, "formation_discipline")
              = Matching(AllTexts("tactical_strengths"), FormationDisciplineTriggers)
        /\ CountOf(StrengthCounts, "weapon_discipline")
              = Matching(AllTexts("tactical_strengths"), WeaponTriggers)

\* more than five errors and more than five strengths, with a category
\* counting an entry that is not among the examples
C10_Witness ==
    /\ Done
    /\ summary.tactical_errors.total > 5
    /\ Len(summary.tactical_errors.examples) = 5
    /\ summary.tactical_strengths.total > 5
    /\ Len(summary.tactical_strengths.examples) = 5
    /\ ErrorCounts["spacing_issues"]
          > Matching(summary.tactical_errors.examples, SpacingTriggers)
    /\ StrengthCounts["formation_discipline"]
          > Matching(summary.tactical_strengths.examples, FormationDisciplineTriggers)

(***************************************************************************)
(* C11: aggregate_analysis on an empty list of analyses fails with an      *)
(* error and leaves the caller without a summary; a summary is returned    *)
(* only for a non-empty list, so its frame_count is never 0.               *)
(***************************************************************************)
C11_EmptyInputFails ==
    /\ (agg_calls > 0 /\ analysis_results = <<>>) =>
           (agg_pc = "ValueError" /\ summary = NoSummary)
    /\ agg_pc = "ValueError" => analysis_results = <<>>
    /\ agg_pc = "done" =>
           (analysis_results # <<>> /\ summary # NoSummary
            /\ summary.frame_count >= 1)

C11_Witness ==
    agg_calls = 1 /\ analysis_results = <<>> /\ agg_pc = "ValueError"

\* ---------------------------------------------------------------- C12
\* the texts under `key` of a list of frame results, in list order
RECURSIVE TextsOfList(_, _)
TextsOfList(results, key) ==
    IF results = <<>> THEN <<>>
    ELSE (IF key \in DOMAIN Head(results).analysis
          THEN Head(results).analysis[key] ELSE <<>>)
         \o TextsOfList(Tail(results), key)

\* frames_analyzed of summary `s` has one entry per result, in list order
FollowsOrder(s, results) ==
    /\ Len(s.frames_analyzed) = Len(results)
    /\ \A i \in 1..Len(results) :
          /\ s.frames_analyzed[i].index = results[i].index
          /\ s.frames_analyzed[i].timestamp = results[i].timestamp
          /\ s.frames_analyzed[i].score =
                (IF "score" \in DOMAIN results[i].analysis
                 THEN results[i].analysis.score ELSE 0)
    /\ s.tactical_errors.examples = FirstN(TextsOfList(results, "tactical_errors"), 5)
    /\ s.tactical_strengths.examples
          = FirstN(TextsOfList(results, "tactical_strengths"), 5)

\* C12: for a non-empty list and every reordering of it, aggregate_analysis
\* gives the same average, min, max, range and rating, the same cover totals,
\* total soldiers, error and strength totals, category counts and
\* recommendations; frames_analyzed and the two examples lists follow the
\* order of the list that was handed over.
C12_OrderInsensitiveTotals ==
    perm_pc = "done" =>
        LET a == perm_out.original
            b == perm_out.permuted
            reordered == Permuted(perm_results, perm_order)
        IN  /\ b.overall_performance = a.overall_performance
            /\ b.cover_statistics = a.cover_statistics
            /\ b.total_soldiers = a.total_soldiers
            /\ b.tactical_errors.total = a.tactical_errors.total
            /\ b.tactical_errors.by_category = a.tactical_errors.by_category
            /\ b.tactical_strengths.total = a.tactical_strengths.total
            /\ b.tactical_strengths.by_category = a.tactical_strengths.by_category
            /\ b.recommendations = a.recommendations
            /\ FollowsOrder(a, perm_results)
            /\ FollowsOrder(b, reordered)
            /\ \A i \in 1..Len(perm_results) :
                  b.frames_analyzed[i] = a.frames_analyzed[perm_order[i]]

\* three different frames handed over in reverse, more than five errors, so
\* that the examples of the two summaries differ
C12_Witness ==
    /\ perm_pc = "done"
    /\ Len(perm_results) = 3
    /\ perm_order = <<3, 2, 1>>
    /\ perm_out.original.tactical_errors.total > 5
    /\ perm_out.original.tactical_errors.examples
          # perm_out.permuted.tactical_errors.examples
    /\ perm_out.original.overall_performance.min_score
          < perm_out.original.overall_performance.max_score

Positions == ex_locals.positions
NumFrames == ex_locals.num_frames
Kept == IF Len(Positions) < NumFrames THEN Len(Positions) ELSE NumFrames

\* the frame number the code computes for the i-th position of the call
IndexOf(i) == (video.total_frames * Positions[i]) \div 4

\* the indices i, in increasing order, of the seeks 1..n whose read succeeded
RECURSIVE ReadOk(_)
ReadOk(n) ==
    IF n = 0 THEN <<>>
    ELSE IF reads[n] THEN Append(ReadOk(n - 1), n) ELSE ReadOk(n - 1)

\* C14: the seeks of a call are the frame numbers of the first
\* min(len(positions), num_frames) positions, in the order the positions were
\* given; the frames returned are frames of these positions in that order,
\* and there are never more than num_frames of them.
C14_PrefixInGivenOrder ==
    /\ ex_pc \in {"loop", "returned"} =>
          /\ ex_args.positions # <<>> => Positions = ex_args.positions
          /\ Len(seeks) <= Kept
          /\ \A i \in 1..Len(seeks) : seeks[i] = IndexOf(i)
          /\ Len(frames) <= NumFrames
    /\ ex_pc = "returned" =>
          /\ Len(seeks) = Kept
          /\ Len(ex_result.frames) <= NumFrames
          /\ \E at \in [1..Len(ex_result.frames) -> 1..Kept] :
                /\ \A j, k \in DOMAIN at : j < k => at[j] < at[k]
                /\ \A j \in DOMAIN at :
                      ex_result.frames[j].image.frame = IndexOf(at[j])

\* two positions given in descending order, num_frames = 1: the frame
\* returned is the one of the first position, not of the smallest
C14_Witness ==
    /\ ex_pc = "returned"
    /\ Len(ex_args.positions) = 2
    /\ ex_args.positions[1] > ex_args.positions[2]
    /\ ex_args.num_frames = 1
    /\ Len(ex_result.frames) = 1
    /\ ex_result.frames[1].image.frame = IndexOf(1)
    /\ IndexOf(1) # IndexOf(2)

\* ---------------------------------------------------------------- C15
\* how many entries of a sequence equal x
Count(seq, x) == Cardinality({i \in 1..Len(seq) : seq[i] = x})

\* C15: no read failure ends the call: when it returns, every retained
\* position has been attempted (also when the video has fewer frames than
\* num_frames, which only prints a warning), each failure has printed a
\* warning, and the result holds exactly one frame per successful read, in
\* position order, with timestamp = frame index / fps.  A call that raised
\* had not read anything.
C15_FailedReadIsSkipped ==
    /\ ex_pc = "raised" => reads = <<>>
    /\ ex_pc = "returned" =>
          /\ Len(reads) = Kept
          /\ Len(seeks) = Kept
          /\ Count(warnings, "could not read frame") = Count(reads, FALSE)
          /\ ex_result.kind = "frames"
          /\ Len(ex_result.frames) = Len(ReadOk(Kept))
          /\ \A j \in 1..Len(ex_result.frames) :
                LET f == ex_result.frames[j]
                IN  /\ f.image.frame = IndexOf(ReadOk(Kept)[j])
                    /\ f.timestamp.den # 0
                    /\ f.timestamp.num * video.fps
                          = IndexOf(ReadOk(Kept)[j]) * f.timestamp.den

\* fewer frames in the video than num_frames, the first read failed, the
\* second succeeded and its frame is the result
C15_Witness ==
    /\ ex_pc = "returned"
    /\ video.total_frames < NumFrames
    /\ Count(warnings, "fewer frames than requested") = 1
    /\ reads = <<FALSE, TRUE>>
    /\ Len(ex_result.frames) = 1
    /\ ex_result.frames[1].image.frame = IndexOf(2)

\* ---------------------------------------------------------------- C16
\* C16: a call whose reads all failed does not hand an empty list of frames
\* back to its caller: whatever extract_key_frames returns holds a frame.
C16_NoEmptyResult ==
    (ex_pc = "returned" /\ ex_result.kind = "frames") => ex_result.frames # <<>>

\* ---------------------------------------------------------------- C17
\* C17: when extract_key_frames hands control back, by a return or by an
\* exception, a video handle it created has been released, exactly once.
C17_HandleReleasedOnce ==
    (ex_pc \in {"returned", "raised"} /\ cap # "none") =>
        (cap = "released" /\ releases = 1)

\* ---------------------------------------------------------------- C18
\* C18: an image with width <= max_dimension and height <= max_dimension is
\* returned with its size unchanged, and resizing the result of a resize
\* again with the same max_dimension leaves its size as it is.
C18_ResizeIdempotent ==
    /\ (rz_pc \in {"once", "twice"}
            /\ rz_size[1] <= rz_max /\ rz_size[2] <= rz_max) => rz_once = rz_size
    /\ rz_pc = "twice" => rz_twice = rz_once

\* an image larger than max_dimension was made smaller, then resized again
C18_Witness ==
    /\ rz_pc = "twice"
    /\ rz_size[1] > rz_max
    /\ rz_size[2] < rz_size[1]
    /\ rz_once # rz_size
    /\ rz_once[2] > 0
    /\ rz_twice = rz_once

\* ---------------------------------------------------------------- C19
\* n / d rounded to the nearest integer, ties to the even one
RoundDiv(n, d) ==
    LET q == n \div d
        r == n % d
    IN  IF 2 * r < d THEN q
        ELSE IF 2 * r > d THEN q + 1
        ELSE IF q % 2 = 0 THEN q ELSE q + 1

\* C19: an image with width or height above max_dimension gets its larger
\* dimension set to max_dimension and the other one to
\* round(other * max_dimension / larger), also when width = height.
C19_OtherDimensionRounded ==
    (rz_pc \in {"once", "twice"} /\ (rz_size[1] > rz_max \/ rz_size[2] > rz_max)) =>
        LET width == rz_size[1]
            height == rz_size[2]
        IN  rz_once = IF width >= height
                      THEN <<rz_max, RoundDiv(height * rz_max, width)>>
                      ELSE <<RoundDiv(width * rz_max, height), rz_max>>

\* ---------------------------------------------------------------- C20
\* the distance of the i-th and the j-th position of the call, in quarters
Apart(i, j) ==
    IF Positions[i] < Positions[j]
    THEN Positions[j] - Positions[i] ELSE Positions[i] - Positions[j]

\* the position index of the j-th frame of the list built so far
PositionOfFrame(j) == ReadOk(Len(reads))[j]

\* C20 as stated: in a video of at least one frame, two different retained
\* positions never get the same frame index.
C20_Original ==
    (ex_pc \in {"loop", "returned"} /\ video.total_frames >= 1) =>
        \A i, j \in 1..Len(seeks) :
            Positions[i] # Positions[j] => seeks[i] # seeks[j]

\* C20: two retained positions that lie at least 1 / total_frames apart get
\* different frame indices, and frames read at them different timestamps.
C20_DistinctWhenApart ==
    ex_pc \in {"loop", "returned"} =>
        /\ \A i, j \in 1..Len(seeks) :
              video.total_frames * Apart(i, j) >= 4 => seeks[i] # seeks[j]
        /\ \A j, k \in 1..Len(frames) :
              video.total_frames * Apart(PositionOfFrame(j), PositionOfFrame(k)) >= 4 =>
                 frames[j].timestamp.num * frames[k].timestamp.den
                    # frames[k].timestamp.num * frames[j].timestamp.den

\* positions 0.25 and 0.5 in a video of 4 frames: frames 1 and 2, both read
C20_Witness ==
    /\ ex_pc = "returned"
    /\ video.total_frames = 4
    /\ Len(seeks) = 2
    /\ Positions[1] = 1
    /\ Positions[2] = 2
    /\ seeks = <<1, 2>>
    /\ reads = <<TRUE, TRUE>>
    /\ Len(ex_result.frames) = 2

\* ---------------------------------------------------------------- C21
\* the video is within the three limits of the configuration
WithinLimits ==
    /\ lower(video.suffix) \in SUPPORTED_FORMATS
    /\ video.st_size <= MAX_FILE_SIZE_MB * BYTES_PER_MB
    /\ (video.fps > 0 => video.total_frames <= MAX_VIDEO_DURATION * video.fps)

\* C21: a call of extract_key_frames (alone or from extract_and_save_frames)
\* has read a frame only from a video whose duration, file size and
\* extension are within MAX_VIDEO_DURATION, MAX_FILE_SIZE_MB and
\* SUPPORTED_FORMATS.
C21_LimitsBeforeExtraction ==
    Count(reads, TRUE) > 0 => WithinLimits

\* ---------------------------------------------------------------- C22
\* the index of the section title with the given text
TitleAt(text) ==
    CHOOSE i \in 1..Len(report) : report[i].kind = "title" /\ report[i].text = text

\* the lines of one kind, in report order
OfKind(lines, kind) == SelectSeq(lines, LAMBDA l : l.kind = kind)

\* the lines of one kind between two section titles
Between(first, second, kind) ==
    OfKind(SubSeq(report, TitleAt(first) + 1, TitleAt(second) - 1), kind)

SectionTitles ==
    [i \in 1..Len(OfKind(report, "title")) |-> OfKind(report, "title")[i].text]

\* the numbered lines are 1., 2., ... with the texts of the list in its order
NumberedAs(lines, items) ==
    /\ Len(lines) = Len(items)
    /\ \A i \in 1..Len(items) : lines[i].number = i /\ lines[i].text = items[i]

Rendered ==
    /\ SectionTitles = << "TACTICAL PERFORMANCE SUMMARY", "OVERALL PERFORMANCE",
                          "FRAME-BY-FRAME SCORES", "COVER UTILIZATION",
                          "TACTICAL ERRORS", "TACTICAL STRENGTHS",
                          "TRAINING RECOMMENDATIONS", "END OF REPORT" >>
    /\ LET lines == Between("FRAME-BY-FRAME SCORES", "COVER UTILIZATION", "frame")
       IN  /\ Len(lines) = Len(summary.frames_analyzed)
           /\ Len(OfKind(report, "frame")) = Len(lines)
           /\ \A i \in 1..Len(lines) :
                 /\ lines[i].number = summary.frames_analyzed[i].index + 1
                 /\ lines[i].score = summary.frames_analyzed[i].score
                 /\ lines[i].timestamp = 10 * summary.frames_analyzed[i].timestamp
    /\ NumberedAs(Between("TACTICAL ERRORS", "TACTICAL STRENGTHS", "item"),
                  summary.tactical_errors.examples)
    /\ NumberedAs(Between("TACTICAL STRENGTHS", "TRAINING RECOMMENDATIONS", "item"),
                  summary.tactical_strengths.examples)
    /\ NumberedAs(Between("TRAINING RECOMMENDATIONS", "END OF REPORT", "item"),
                  summary.recommendations)
    /\ Len(OfKind(report, "item")) =
          Len(summary.tactical_errors.examples)
          + Len(summary.tactical_strengths.examples)
          + Len(summary.recommendations)

\* C22: save_summary_report leaves the summary and the analysis records as
\* they were, and the report it writes has the eight sections in their fixed
\* order, one line per entry of frames_analyzed in that order between the
\* frame-by-frame and the cover titles, and under the errors, strengths and
\* recommendations titles one line per example or recommendation, numbered
\* from 1 in the order of the summary.
C22_ReportIsPureRendering ==
    /\ [](report_pc = "saved" => Rendered)
    /\ [][report_pc' # report_pc =>
             summary' = summary /\ analysis_results' = analysis_results]_vars

\* a report of three frames with at least two errors, two strengths and two
\* recommendations has been written
C22_Witness ==
    /\ report_pc = "saved"
    /\ Len(summary.frames_analyzed) = 3
    /\ Len(summary.tactical_errors.examples) >= 2
    /\ Len(summary.tactical_strengths.examples) >= 2
    /\ Len(summary.recommendations) >= 2
    /\ Len(Between("TACTICAL ERRORS", "TACTICAL STRENGTHS", "item")) >= 2

\* ---------------------------------------------------------------- C23
\* C23: every failure generate_infographic catches without raising it again
\* has a printed line that tells of it.
C23_EveryCaughtFailureLogged ==
    \A i \in 1..Len(caught) : \E j \in 1..Len(logs) : logs[j].about = caught[i]

\* ---------------------------------------------------------------- C24
\* the five checks in the order of the claim; a check that cannot be made
\* because an earlier one failed counts as not passed
Passes(i) ==
    CASE i = 1 -> video.exists
      [] i = 2 -> video.exists /\ lower(video.suffix) \in SUPPORTED_FORMATS
      [] i = 3 -> video.exists /\ video.st_size <= MAX_FILE_SIZE_MB * BYTES_PER_MB
      [] i = 4 -> video.exists /\ video.opens
      [] i = 5 -> /\ video.exists
                  /\ video.opens
                  /\ (video.fps > 0 =>
                         video.total_frames <= MAX_VIDEO_DURATION * video.fps)

CheckErrors ==
    << "File not found", "Unsupported format", "File too large",
       "Cannot open video file", "Video too long" >>

FirstFailing == CHOOSE i \in 1..5 : ~Passes(i) /\ \A j \in 1..(i - 1) : Passes(j)

\* the duration of the metadata is the quotient frame_count / fps
DurationIsQuotient ==
    val_result.metadata.duration.num * video.fps
        = video.total_frames * val_result.metadata.duration.den

\* C24 as stated: the duration of an accepted video is frame_count / fps.
C24_Original ==
    (val_pc = "done" /\ val_result.valid) => DurationIsQuotient

\* C24: validate_video reports the first failing check in the order exists,
\* extension (case-insensitive), size, opens, duration, as valid = False with
\* that error and no metadata; when every check passes it returns valid =
\* True with metadata and no error, where duration is frame_count / fps for
\* fps > 0 and 0 for fps <= 0; a size of exactly MAX_FILE_SIZE_MB and a
\* duration of exactly MAX_VIDEO_DURATION are accepted.
C24_FirstFailingCheckReported ==
    val_pc = "done" =>
        IF \A i \in 1..5 : Passes(i)
        THEN /\ val_result.valid
             /\ DOMAIN val_result = {"valid", "metadata"}
             /\ val_result.metadata.frame_count = video.total_frames
             /\ IF video.fps > 0
                THEN DurationIsQuotient
                ELSE val_result.metadata.duration.num = 0
        ELSE /\ ~val_result.valid
             /\ DOMAIN val_result = {"valid", "error"}
             /\ val_result.error = CheckErrors[FirstFailing]

\* a video of exactly MAX_VIDEO_DURATION seconds has been accepted
C24_Witness ==
    /\ val_pc = "done"
    /\ val_result.valid
    /\ video.fps > 0
    /\ video.total_frames = MAX_VIDEO_DURATION * video.fps

\* ---------------------------------------------------------------- C25
\* C25: the stored rating is the band of the unrounded average, the
\* fundamentals recommendation is made exactly when the unrounded average is
\* below 70, and average_score holds the average rounded to one decimal.
C25_RatingOfUnroundedAverage ==
    Done =>
        /\ Overall.rating = Bands[BandOf(ScoreSum, NFrames)]
        /\ Overall.average_score = round1(ScoreSum, NFrames)
        /\ (\E i \in 1..Len(summary.recommendations) :
                summary.recommendations[i] = REC_FUNDAMENTALS)
           <=> ScoreSum < 70 * NFrames

\* an average of 89.95... is stored as 90.0 and rated Good
C25_Witness ==
    /\ Done
    /\ ScoreSum < 90 * NFrames
    /\ Overall.average_score = 900
    /\ Overall.rating = "Good"

\* ---------------------------------------------------------------- C26
\* C26: generate_infographic returns an image or None and never raises out
\* of the image-model call; when the call raises or the response has no
\* usable image part it returns None, and the summary and the analysis
\* results are the same after the call as before it.
C26_NoneWithoutRaising ==
    /\ [](/\ info_pc \in {"call", "returned"}
          /\ info_pc = "returned" =>
                /\ infographic \in {"image", "None"}
                /\ response # "image" => infographic = "None")
    /\ [][info_pc' # info_pc =>
             /\ summary' = summary
             /\ analysis_results' = analysis_results
             /\ agg_pc' = agg_pc]_vars

\* on a three-frame summary the image-model call raised, or answered with
\* text only, and None came back
C26_Witness ==
    /\ info_pc = "returned"
    /\ response \in {"raises", "text"}
    /\ infographic = "None"
    /\ summary.frame_count = 3

\* ---------------------------------------------------------------- C27
\* C27: extract_key_frames on a video validate_video accepts does not end in
\* an arithmetic fault.
C27_AcceptedVideoExtractsWithoutFault ==
    (val_pc = "done" /\ val_result.valid /\ ex_pc = "raised")
        => ex_result.kind # "ZeroDivisionError"

\* ---------------------------------------------------------------- C28
\* C28: the records extract_and_save_frames returns are one per successful
\* read, in extraction order, with indices 0, 1, ..., n-1 without gaps also
\* when reads between them failed, and their n filenames differ pairwise.
C28_DenseIndicesDistinctNames ==
    esf_pc = "returned" =>
        /\ Len(esf_out) = Count(reads, TRUE)
        /\ \A i \in 1..Len(esf_out) :
              /\ esf_out[i].index = i - 1
              /\ esf_out[i].image = ex_result.frames[i].image
              /\ esf_out[i].image.frame = seeks[ReadOk(Len(reads))[i]]
        /\ \A i, j \in 1..Len(esf_out) :
              i # j => esf_out[i].filename # esf_out[j].filename

\* the first read failed, the two after it succeeded on the same frame of
\* the video: the records are numbered 0 and 1, carry the same timestamp and
\* have different filenames
C28_Witness ==
    /\ esf_pc = "returned"
    /\ reads = <<FALSE, TRUE, TRUE>>
    /\ Len(esf_out) = 2
    /\ esf_out[1].index = 0 /\ esf_out[2].index = 1
    /\ esf_out[1].timestamp = esf_out[2].timestamp
    /\ esf_out[1].filename # esf_out[2].filename

\* ---------------------------------------------------------------- C29
\* C29: a call of extract_key_frames works with NUM_FRAMES for num_frames =
\* 0 (or None), with FRAME_EXTRACTION_POSITIONS for positions = [] (or None)
\* and with FRAME_RESIZE_MAX for resize_max = 0 (or None), and with the
\* argument itself otherwise; frames are resized to the effective
\* resize_max; an empty positions list is not rejected (a call only raises
\* because of the video) and a call that returns has attempted at least one
\* position.
C29_FalsyArgumentsGetDefaults ==
    ex_pc # "call" =>
        /\ ex_locals.num_frames =
              IF ex_args.num_frames = 0 THEN NUM_FRAMES ELSE ex_args.num_frames
        /\ ex_locals.positions =
              IF ex_args.positions = <<>> THEN FRAME_EXTRACTION_POSITIONS
              ELSE ex_args.positions
        /\ ex_locals.resize_max =
              IF ex_args.resize_max = 0 THEN FRAME_RESIZE_MAX ELSE ex_args.resize_max
        /\ \A i \in 1..Len(frames) :
              /\ frames[i].image.size[1] <= ex_locals.resize_max
              /\ frames[i].image.size[2] <= ex_locals.resize_max
              /\ ex_args.resize_max = 0 =>
                    frames[i].image.size = _resize_image(video.size, FRAME_RESIZE_MAX)
        /\ ex_pc = "raised" =>
              (~video.exists \/ ~video.opens \/ video.fps = 0)
        /\ ex_pc = "returned" =>
              /\ Len(seeks) >= 1
              /\ ex_args.positions = <<>> =>
                    Len(seeks) = IF ex_locals.num_frames < Len(FRAME_EXTRACTION_POSITIONS)
                                 THEN ex_locals.num_frames
                                 ELSE Len(FRAME_EXTRACTION_POSITIONS)

\* a call with num_frames = 0, positions = [] and resize_max = 0 has returned
\* after three attempts with a 1280 x 720 frame resized to 720 x 405
C29_Witness ==
    /\ ex_pc = "returned"
    /\ ex_args = [num_frames |-> 0, positions |-> <<>>, resize_max |-> 0]
    /\ Len(seeks) = 3
    /\ Len(frames) >= 1
    /\ video.size = <<1280, 720>>
    /\ frames[1].image.size = <<720, 405>>

\* ---------------------------------------------------------------- C30
\* C30: for width, height and max_dimension of at least 1 the size
\* _resize_image returns has both dimensions in 1..max_dimension, and no
\* dimension is larger than it was.
C30_SizeWithinOneAndMax ==
    rz_pc \in {"once", "twice"} =>
        /\ rz_once[1] \in 1..rz_max
        /\ rz_once[2] \in 1..rz_max
        /\ rz_once[1] <= rz_size[1]
        /\ rz_once[2] <= rz_size[2]

=============================================================================
